---- MODULE Spec2Model ----
(***************************************************************************)
(* Model of the Zephyrus backend session store (session_manager.py), of   *)
(* the text-to-action extractor (actions/edit_actions.py) and of the       *)
(* connection router (websocket_handlers.py, connection_manager.py,        *)
(* actions/message_actions.py).                                            *)
(*                                                                         *)
(* Strings whose structure the code inspects (paths, response lines) are   *)
(* sequences of tokens, so that basename, replace, split, startswith,      *)
(* strip and the substring test are computed, not assumed.  Python dicts are    *)
(* functions whose DOMAIN is the key set; the empty dict is <<>>.          *)
(***************************************************************************)
EXTENDS Integers, Sequences, FiniteSets, TLC

VARIABLES chats, clock, putLog, last,
          response, current_contract_context, actions, pc,
          active_connections, agents, heap, handlers, sent, wallet_order

storeVars == <<chats, clock, putLog, last>>
extractVars == <<response, current_contract_context, actions, pc>>
routerVars == <<active_connections, agents, heap, handlers, sent, wallet_order>>
vars == <<chats, clock, putLog, last,
          response, current_contract_context, actions, pc,
          active_connections, agents, heap, handlers, sent, wallet_order>>

(***************************************************************************)
(* Bounds of the model and input alphabets.                                *)
(***************************************************************************)
MaxPuts == 7
MaxClock == 1
MaxFiles == 2
MaxHist == 1
MaxMsgs == 1
MaxImport == 2
MaxLines == 5

Owners == {"0xA", "0xB"}
ChatIds == {"c1", "c2"}
Contents == {"a", "b"}
Languages == {"solidity"}

PathToken999 == <<"contracts", "/", "Token", "_", "999", ".sol">>
PathTokenOther == <<"contracts", "/", "Token", "_", "other", ".sol">>
PathVault == <<"contracts", "/", "Vault", ".sol">>
Paths == {PathToken999, PathTokenOther, PathVault}

(***************************************************************************)
(* Generic helpers: Python dict and list primitives.                       *)
(***************************************************************************)
SetMax(S) == CHOOSE x \in S : \A y \in S : y <= x

Min2(a, b) == IF a < b THEN a ELSE b

DictSet(d, k, v) == [x \in (DOMAIN d) \cup {k} |-> IF x = k THEN v ELSE d[x]]

DictDel(d, k) == [x \in (DOMAIN d) \ {k} |-> d[x]]

\* list[-n:]
LastN(s, n) == IF Len(s) > n THEN SubSeq(s, Len(s) - n + 1, Len(s)) ELSE s

(***************************************************************************)
(* Path canonicalization (token sequences).                                *)
(***************************************************************************)
\* os.path.basename(path)
Basename(path) ==
    LET seps == {i \in 1..Len(path) : path[i] = "/"}
    IN IF seps = {} THEN path
       ELSE SubSeq(path, SetMax(seps) + 1, Len(path))

NotSolExt(t) == t # ".sol"

\* s.replace(".sol", "")
StripSol(s) == SelectSeq(s, NotSolExt)

\* s.split("_")[0]
BeforeUnderscore(s) ==
    LET us == {i \in 1..Len(s) : s[i] = "_"}
    IN IF us = {} THEN s
       ELSE SubSeq(s, 1, (CHOOSE i \in us : \A j \in us : i <= j) - 1)

\* add_virtual_file: base_name
AddBaseName(path) == Append(BeforeUnderscore(StripSol(Basename(path))), ".sol")

\* mutation: the part after the first "_" is kept
GetBaseName_NoSplit(path) == Append(StripSol(Basename(path)), ".sol")

\* get_virtual_file: base_name
GetBaseName(path) == Append(BeforeUnderscore(StripSol(Basename(path))), ".sol")

\* delete_virtual_file: base_name
DeleteBaseName(path) == Append(BeforeUnderscore(StripSol(Basename(path))), ".sol")

\* get_file_history: base_name
HistoryBaseName(path) == Append(BeforeUnderscore(StripSol(Basename(path))), ".sol")

(***************************************************************************)
(* class Chat                                                              *)
(***************************************************************************)
HistoryLimit == 5

NewChat(chat_id, name, wallet_address) ==
    [chat_id |-> chat_id, name |-> name, wallet_address |-> wallet_address,
     messages |-> <<>>, virtual_files |-> <<>>, virtual_file_history |-> <<>>,
     metadata |-> <<>>]

\* mutation: the message is put in front of the earlier ones
AddMessage_Prepend(chat, message) == [chat EXCEPT !.messages = <<message>> \o @]

AddMessage(chat, message) == [chat EXCEPT !.messages = Append(@, message)]

\* mutation: the new version is pushed whenever the file exists
NeedsNewVersion_Always(files, base_name, content) == base_name \in DOMAIN files

\* base_name in self.virtual_files and content != current["content"]
NeedsNewVersion(files, base_name, content) ==
    base_name \in DOMAIN files /\ content # files[base_name].content

\* mutation: the newest entries are dropped instead of the oldest
TrimHistory_DropNewest(history) ==
    IF Len(history) > HistoryLimit THEN SubSeq(history, 1, HistoryLimit) ELSE history

\* keep only the last 5 versions
TrimHistory(history) ==
    IF Len(history) > HistoryLimit THEN LastN(history, HistoryLimit) ELSE history

AddVirtualFile(chat, path, content, language, now) ==
    LET base_name == AddBaseName(path)
        files == chat.virtual_files
        hist == chat.virtual_file_history
        old == IF base_name \in DOMAIN hist THEN hist[base_name] ELSE <<>>
        pushed == Append(old, [content |-> files[base_name].content,
                               timestamp |-> files[base_name].timestamp])
    IN [chat EXCEPT
          !.virtual_file_history =
              IF NeedsNewVersion(files, base_name, content)
              THEN DictSet(hist, base_name, TrimHistory(pushed)) ELSE hist,
          !.virtual_files =
              DictSet(files, base_name,
                      [content |-> content, language |-> language, timestamp |-> now])]

NoVersion == [given |-> FALSE, k |-> 0]
Version(k) == [given |-> TRUE, k |-> k]
NotFound == [found |-> FALSE]
Found(d) == [found |-> TRUE, data |-> d]

\* mutation: the lower bound of the index is not tested, so that a negative
\* index counts from the end of the list
GetVirtualFile_NoLowerBound(chat, path, version) ==
    LET base_name == GetBaseName(path)
    IN IF ~version.given
       THEN IF base_name \in DOMAIN chat.virtual_files
            THEN Found(chat.virtual_files[base_name]) ELSE NotFound
       ELSE IF base_name \in DOMAIN chat.virtual_file_history
               /\ -Len(chat.virtual_file_history[base_name]) <= version.k
               /\ version.k < Len(chat.virtual_file_history[base_name])
            THEN Found(chat.virtual_file_history[base_name]
                          [IF version.k >= 0 THEN version.k + 1
                           ELSE Len(chat.virtual_file_history[base_name]) + version.k + 1])
            ELSE NotFound

GetVirtualFile(chat, path, version) ==
    LET base_name == GetBaseName(path)
    IN IF ~version.given
       THEN IF base_name \in DOMAIN chat.virtual_files
            THEN Found(chat.virtual_files[base_name]) ELSE NotFound
       ELSE IF base_name \in DOMAIN chat.virtual_file_history
               /\ 0 <= version.k
               /\ version.k < Len(chat.virtual_file_history[base_name])
            THEN Found(chat.virtual_file_history[base_name][version.k + 1])
            ELSE NotFound

DeleteVirtualFile(chat, path) ==
    LET base_name == DeleteBaseName(path)
    IN IF base_name \in DOMAIN chat.virtual_files
       THEN [chat EXCEPT !.virtual_files = DictDel(@, base_name),
                         !.virtual_file_history = DictDel(@, base_name)]
       ELSE chat

GetFileHistory(chat, path) ==
    LET base_name == HistoryBaseName(path)
    IN IF base_name \in DOMAIN chat.virtual_file_history
       THEN chat.virtual_file_history[base_name] ELSE <<>>

(***************************************************************************)
(* Inbound JSON values of sync_chat_history.  A JSON value that the code   *)
(* type-tests is a record carrying its type and, for an object, its keys.  *)
(***************************************************************************)
MsgUser == [isdict |-> TRUE, keys |-> {"text", "sender"},
            text |-> "hi", sender |-> "user", timestamp |-> 0]
MsgAi == [isdict |-> TRUE, keys |-> {"text", "sender", "timestamp"},
          text |-> "ok", sender |-> "ai", timestamp |-> 0]
MsgNoText == [isdict |-> TRUE, keys |-> {"sender"},
              text |-> "", sender |-> "user", timestamp |-> 0]
MsgNotDict == [isdict |-> FALSE, keys |-> {},
               text |-> "", sender |-> "", timestamp |-> 0]
MsgEntries == {MsgUser, MsgAi, MsgNoText, MsgNotDict}

MsgLists == UNION {[1..n -> MsgEntries] : n \in 0..MaxImport}

\* history["messages"]: missing, not a list, or a list of entries
MessagesInputs ==
    {[kind |-> "absent", items |-> <<>>], [kind |-> "notlist", items |-> <<>>]}
    \cup {[kind |-> "list", items |-> l] : l \in MsgLists}

\* file_data values; content is a JSON value (a string, or a number)
StrVal(x) == [isstr |-> TRUE, s |-> x, n |-> 0]
NumVal(k) == [isstr |-> FALSE, s |-> "", n |-> k]
FileA == [isdict |-> TRUE, keys |-> {"content"}, content |-> StrVal("a")]
FileB == [isdict |-> TRUE, keys |-> {"content"}, content |-> StrVal("b")]
FileNum == [isdict |-> TRUE, keys |-> {"content"}, content |-> NumVal(7)]
FileNoContent == [isdict |-> TRUE, keys |-> {}, content |-> StrVal("")]

Entry(p, d) == [path |-> p, data |-> d]

\* history["virtualFiles"]: missing, not a dict, or a dict path -> file_data
\* (a JSON object, in the order of its members)
FilesInputs ==
    {[kind |-> "absent", items |-> <<>>],
     [kind |-> "notdict", items |-> <<>>],
     [kind |-> "dict", items |-> <<>>],
     [kind |-> "dict", items |-> <<Entry(PathToken999, FileA)>>],
     [kind |-> "dict", items |-> <<Entry(PathToken999, FileA),
                                   Entry(PathTokenOther, FileB)>>],
     [kind |-> "dict", items |-> <<Entry(PathVault, FileNum),
                                   Entry(PathToken999, FileNoContent)>>]}

\* history.get("name"): None is the empty name
NameInputs == {<<>>, <<"N">>}

HistoryInputs ==
    [name : NameInputs, messages : MessagesInputs, virtualFiles : FilesInputs]

(***************************************************************************)
(* class ChatManager: pure parts, on a value of self.chats                 *)
(***************************************************************************)
HasChat(store, wallet_address, chat_id) ==
    wallet_address \in DOMAIN store /\ chat_id \in DOMAIN store[wallet_address]

\* the chats of a wallet: self.chats.get(wallet_address, {})
UserChats(store, wallet_address) ==
    IF wallet_address \in DOMAIN store THEN store[wallet_address] ELSE <<>>

\* mutation: an existing chat is replaced by a new one
CreateChat_Fresh(store, wallet_address, chat_id, name) ==
    LET s1 == IF wallet_address \in DOMAIN store THEN store
              ELSE DictSet(store, wallet_address, <<>>)
        chat_name == IF name # <<>> THEN name
                     ELSE <<"Chat", " ", ToString(Cardinality(DOMAIN s1[wallet_address]) + 1)>>
    IN [s1 EXCEPT ![wallet_address] =
           DictSet(@, chat_id, NewChat(chat_id, chat_name, wallet_address))]

CreateChat(store, wallet_address, chat_id, name) ==
    LET s1 == IF wallet_address \in DOMAIN store THEN store
              ELSE DictSet(store, wallet_address, <<>>)
        chat_name == IF name # <<>> THEN name
                     ELSE <<"Chat", " ", ToString(Cardinality(DOMAIN s1[wallet_address]) + 1)>>
    IN IF chat_id \in DOMAIN s1[wallet_address] THEN s1
       ELSE [s1 EXCEPT ![wallet_address] =
                DictSet(@, chat_id, NewChat(chat_id, chat_name, wallet_address))]

\* mutation: the text key is not required
MsgWellFormed_NoText(msg) == msg.isdict /\ "sender" \in msg.keys

\* isinstance(msg, dict) and "text" in msg and "sender" in msg
MsgWellFormed(msg) == msg.isdict /\ "text" \in msg.keys /\ "sender" \in msg.keys

\* msg["timestamp"] = now when the key is missing
EnsureTimestamp(msg, now) ==
    IF "timestamp" \in msg.keys THEN msg
    ELSE [msg EXCEPT !.keys = @ \cup {"timestamp"}, !.timestamp = now]

RECURSIVE FormatMessages(_, _)
FormatMessages(items, now) ==
    IF items = <<>> THEN <<>>
    ELSE LET msg == Head(items)
             rest == FormatMessages(Tail(items), now)
         IN IF MsgWellFormed(msg) THEN <<EnsureTimestamp(msg, now)>> \o rest
            ELSE rest

FormattedMessages(history, now) ==
    IF history.messages.kind = "list"
    THEN FormatMessages(history.messages.items, now) ELSE <<>>

\* isinstance(file_data, dict) and "content" in file_data
FileWellFormed(file_data) == file_data.isdict /\ "content" \in file_data.keys

\* str(file_data["content"])
Str(v) == IF v.isstr THEN v.s ELSE ToString(v.n)

\* validated_files, keyed by os.path.basename(path); the inputs carry no
\* "language" and no "timestamp", so the .get defaults apply
RECURSIVE ValidatedFiles(_, _, _)
ValidatedFiles(items, validated_files, now) ==
    IF items = <<>> THEN validated_files
    ELSE LET path == Head(items).path
             file_data == Head(items).data
             base_name == Basename(path)
             validated_file == [content |-> Str(file_data.content),
                                language |-> "solidity",
                                timestamp |-> now]
         IN ValidatedFiles(Tail(items),
                           IF FileWellFormed(file_data)
                           THEN DictSet(validated_files, base_name, validated_file)
                           ELSE validated_files,
                           now)

SyncChatHistory(store, wallet_address, chat_id, history, now) ==
    LET s1 == IF HasChat(store, wallet_address, chat_id) THEN store
              ELSE CreateChat(store, wallet_address, chat_id, history.name)
        chat == s1[wallet_address][chat_id]
        c1 == [chat EXCEPT !.messages = FormattedMessages(history, now)]
        c2 == IF history.virtualFiles.kind = "dict"
              THEN [c1 EXCEPT !.virtual_files =
                        ValidatedFiles(history.virtualFiles.items, <<>>, now)]
              ELSE c1
    IN [s1 EXCEPT ![wallet_address][chat_id] = c2]

DeleteChat(store, wallet_address, chat_id) ==
    IF HasChat(store, wallet_address, chat_id)
    THEN [store EXCEPT ![wallet_address] = DictDel(@, chat_id)]
    ELSE store

\* mutation: the file history survives the cleanup
CleanChat_KeepHistory(chat, now) ==
    [chat EXCEPT !.virtual_files = <<>>,
                 !.metadata = [k \in {"last_cleaned", "connection_state"} |->
                                  IF k = "last_cleaned" THEN ToString(now)
                                  ELSE "disconnected"]]

CleanChat(chat, now) ==
    [chat EXCEPT !.virtual_files = <<>>,
                 !.virtual_file_history = <<>>,
                 !.metadata = [k \in {"last_cleaned", "connection_state"} |->
                                  IF k = "last_cleaned" THEN ToString(now)
                                  ELSE "disconnected"]]

\* mutation: the chats of every wallet are cleaned
CleanUserCache_AllWallets(store, wallet_address, now) ==
    [w \in DOMAIN store |-> [c \in DOMAIN store[w] |-> CleanChat(store[w][c], now)]]

CleanUserCache(store, wallet_address, now) ==
    IF wallet_address \in DOMAIN store
    THEN [store EXCEPT ![wallet_address] =
             [c \in DOMAIN @ |-> CleanChat(@[c], now)]]
    ELSE store

(***************************************************************************)
(* class EditActions: parse_actions.  A response is a string: a sequence   *)
(* of tokens in which "\n" is the line break.                              *)
(***************************************************************************)
None == [some |-> FALSE, v |-> <<>>]
Some(x) == [some |-> TRUE, v |-> x]

\* the token of three backticks
Fence == "<fence>"

Keywords == {"suggestion:", "idea:", "you could:", "consider:",
             "recommendation:", "proposal:"}

\* str.lower(), token by token
Lower(t) == CASE t = "Idea:" -> "idea:"
              [] t = "A" -> "a"
              [] t = "B" -> "b"
              [] OTHER -> t

Whitespace == {" ", "\n"}

\* str.strip()
Strip(s) ==
    LET solid == {i \in 1..Len(s) : s[i] \notin Whitespace}
    IN IF solid = {} THEN <<>>
       ELSE SubSeq(s, CHOOSE i \in solid : \A j \in solid : i <= j, SetMax(solid))

\* response.split('\n')
RECURSIVE SplitLines(_)
SplitLines(s) ==
    LET breaks == {i \in 1..Len(s) : s[i] = "\n"}
    IN IF breaks = {} THEN <<s>>
       ELSE LET b == CHOOSE i \in breaks : \A j \in breaks : i <= j
            IN <<SubSeq(s, 1, b - 1)>> \o SplitLines(SubSeq(s, b + 1, Len(s)))

\* any(keyword in line.lower() for keyword in [...])
HasKeyword(line) == \E i \in 1..Len(line) : Lower(line[i]) \in Keywords

\* line.startswith(<three backticks> + "solidity")
StartsSolidityFence(line) ==
    Len(line) >= 2 /\ line[1] = Fence /\ line[2] = "solidity"

\* line.startswith(<three backticks>)
StartsFence(line) == Len(line) >= 1 /\ line[1] = Fence

MessageAction(content) == [type |-> "message", content |-> content]

ExampleContent(code) ==
    <<"Example code:", "\n", Fence, "solidity", "\n">> \o code \o <<"\n", Fence>>

EditAction(path, code) ==
    [type |-> "edit_file", path |-> path, edit |-> [replace |-> code]]

\* f"contracts/Contract_{len(actions)}.sol"
CreatePath(n) == <<"contracts", "/", "Contract", "_", ToString(n), ".sol">>

CreateAction(path, code) ==
    [type |-> "create_file", path |-> path, content |-> code]

\* the locals of parse_actions before the loop; code is
\* current_contract_context["code"]
ParseStart(context) ==
    [actions |-> <<>>, in_code_block |-> FALSE, code_content |-> <<>>,
     is_suggestion_block |-> FALSE, code |-> context.code]

\* mutation: a pending suggestion is ignored when the fence closes
CloseFence_IgnoreSuggestion(st, file, is_editing_mode) ==
    LET code == Strip(st.code_content)
        closed == [st EXCEPT !.in_code_block = FALSE,
                             !.is_suggestion_block = FALSE]
    IN IF code = <<>> THEN closed
       ELSE IF is_editing_mode
       THEN [closed EXCEPT !.actions = Append(@, EditAction(file.v, code)),
                           !.code = Some(code)]
       ELSE [closed EXCEPT !.actions =
                Append(@, CreateAction(CreatePath(Len(st.actions)), code))]

\* mutation: the editing mode is ignored when the fence closes
CloseFence_AlwaysCreate(st, file, is_editing_mode) ==
    LET code == Strip(st.code_content)
        closed == [st EXCEPT !.in_code_block = FALSE,
                             !.is_suggestion_block = FALSE]
    IN IF code = <<>> THEN closed
       ELSE IF st.is_suggestion_block
       THEN [closed EXCEPT !.actions = Append(@, MessageAction(ExampleContent(code)))]
       ELSE [closed EXCEPT !.actions =
                Append(@, CreateAction(CreatePath(Len(st.actions)), code))]

\* mutation: a pending suggestion survives the close of a blank fence
CloseFence_ResetOnlyOnEmit(st, file, is_editing_mode) ==
    LET code == Strip(st.code_content)
        closed == [st EXCEPT !.in_code_block = FALSE,
                             !.is_suggestion_block = FALSE]
    IN IF code = <<>> THEN [st EXCEPT !.in_code_block = FALSE]
       ELSE IF st.is_suggestion_block
       THEN [closed EXCEPT !.actions = Append(@, MessageAction(ExampleContent(code)))]
       ELSE IF is_editing_mode
       THEN [closed EXCEPT !.actions = Append(@, EditAction(file.v, code)),
                           !.code = Some(code)]
       ELSE [closed EXCEPT !.actions =
                Append(@, CreateAction(CreatePath(Len(st.actions)), code))]

\* mutation: an edit leaves the code of the context as it was
CloseFence_KeepsCode(st, file, is_editing_mode) ==
    LET code == Strip(st.code_content)
        closed == [st EXCEPT !.in_code_block = FALSE,
                             !.is_suggestion_block = FALSE]
    IN IF code = <<>> THEN closed
       ELSE IF st.is_suggestion_block
       THEN [closed EXCEPT !.actions = Append(@, MessageAction(ExampleContent(code)))]
       ELSE IF is_editing_mode
       THEN [closed EXCEPT !.actions = Append(@, EditAction(file.v, code))]
       ELSE [closed EXCEPT !.actions =
                Append(@, CreateAction(CreatePath(Len(st.actions)), code))]

\* the fence-close branch
CloseFence(st, file, is_editing_mode) ==
    LET code == Strip(st.code_content)
        closed == [st EXCEPT !.in_code_block = FALSE,
                             !.is_suggestion_block = FALSE]
    IN IF code = <<>> THEN closed
       ELSE IF st.is_suggestion_block
       THEN [closed EXCEPT !.actions = Append(@, MessageAction(ExampleContent(code)))]
       ELSE IF is_editing_mode
       THEN [closed EXCEPT !.actions = Append(@, EditAction(file.v, code)),
                           !.code = Some(code)]
       ELSE [closed EXCEPT !.actions =
                Append(@, CreateAction(CreatePath(Len(st.actions)), code))]

\* mutation: the message of a plain line is put at the front of the list
ParseLine_Prepend(st, line, file, is_editing_mode) ==
    IF ~st.in_code_block /\ HasKeyword(line)
    THEN [st EXCEPT !.is_suggestion_block = TRUE,
                    !.actions = Append(@, MessageAction(Strip(line)))]
    ELSE IF StartsSolidityFence(line)
    THEN [st EXCEPT !.in_code_block = TRUE, !.code_content = <<>>]
    ELSE IF StartsFence(line) /\ st.in_code_block
    THEN CloseFence(st, file, is_editing_mode)
    ELSE IF st.in_code_block
    THEN [st EXCEPT !.code_content = @ \o line \o <<"\n">>]
    ELSE IF Strip(line) # <<>>
    THEN [st EXCEPT !.actions = <<MessageAction(Strip(line))>> \o @]
    ELSE st

\* one iteration of the loop over the lines
ParseLine(st, line, file, is_editing_mode) ==
    IF ~st.in_code_block /\ HasKeyword(line)
    THEN [st EXCEPT !.is_suggestion_block = TRUE,
                    !.actions = Append(@, MessageAction(Strip(line)))]
    ELSE IF StartsSolidityFence(line)
    THEN [st EXCEPT !.in_code_block = TRUE, !.code_content = <<>>]
    ELSE IF StartsFence(line) /\ st.in_code_block
    THEN CloseFence(st, file, is_editing_mode)
    ELSE IF st.in_code_block
    THEN [st EXCEPT !.code_content = @ \o line \o <<"\n">>]
    ELSE IF Strip(line) # <<>>
    THEN [st EXCEPT !.actions = Append(@, MessageAction(Strip(line)))]
    ELSE st

RECURSIVE ParseLoop(_, _, _, _)
ParseLoop(st, lines, file, is_editing_mode) ==
    IF lines = <<>> THEN st
    ELSE ParseLoop(ParseLine(st, Head(lines), file, is_editing_mode),
                   Tail(lines), file, is_editing_mode)

\* mutation: a fence still open at the end of the text is closed there
ParseActions_FlushOpenFence(text, context) ==
    LET is_editing_mode == context.file.some
        last_st == ParseLoop(ParseStart(context), SplitLines(text),
                             context.file, is_editing_mode)
        final == IF last_st.in_code_block
                 THEN CloseFence(last_st, context.file, is_editing_mode)
                 ELSE last_st
    IN [actions |-> final.actions,
        context |-> [context EXCEPT !.code = final.code]]

\* parse_actions: the returned list and the context it leaves behind
ParseActions(text, context) ==
    LET is_editing_mode == context.file.some
        final == ParseLoop(ParseStart(context), SplitLines(text),
                           context.file, is_editing_mode)
    IN [actions |-> final.actions,
        context |-> [context EXCEPT !.code = final.code]]

(***************************************************************************)
(* State.  chats is ChatManager.chats (wallet -> chat_id -> Chat); clock   *)
(* is the wall clock read by datetime.now().  History variables: last is   *)
(* the last operation with its arguments and outcome; putLog[<<w, c, n>>]  *)
(* is the sequence of contents written to file n of chat (w, c) by puts    *)
(* with changing content since that file had neither a current version nor *)
(* a history, as long as no other operation touched the file.              *)
(***************************************************************************)
Op(op, wallet_address, chat_id, arg, result) ==
    [op |-> op, owner |-> wallet_address, chat |-> chat_id, arg |-> arg,
     result |-> result]

StoreInit ==
    /\ chats = <<>>
    /\ clock = 0
    /\ putLog = <<>>
    /\ last = Op("init", "", "", <<>>, "ok")

\* EditActions.__init__; no response is being parsed
ExtractIdle ==
    /\ response = <<>>
    /\ current_contract_context = [file |-> None, code |-> None, file_system |-> <<>>]
    /\ actions = <<>>
    /\ pc = "idle"

\* ConnectionManager.__init__; no connection has been attempted.  handlers
\* maps a connection to the state of its handle_websocket_connection
\* coroutine, heap maps an Agent object to its fields, sent is the list of
\* frames sent by the last step, wallet_order the insertion order of the
\* keys of ChatManager.chats.
RouterIdle ==
    /\ active_connections = <<>>
    /\ agents = <<>>
    /\ heap = <<>>
    /\ handlers = <<>>
    /\ sent = <<>>
    /\ wallet_order = <<>>

Init == StoreInit /\ ExtractIdle /\ RouterIdle

DropLogs(log, keys) == [k \in (DOMAIN log) \ keys |-> log[k]]

LogKeysOfChat(wallet_address, chat_id) ==
    {k \in DOMAIN putLog : k[1] = wallet_address /\ k[2] = chat_id}

LogKeysOfOwner(wallet_address) == {k \in DOMAIN putLog : k[1] = wallet_address}

\* the wall clock advances
Tick ==
    /\ clock < MaxClock
    /\ clock' = clock + 1
    /\ last' = Op("tick", "", "", <<>>, "ok")
    /\ UNCHANGED <<chats, putLog>>

CreateChatOp(wallet_address, chat_id, name) ==
    /\ chats' = CreateChat(chats, wallet_address, chat_id, name)
    /\ last' = Op("create_chat", wallet_address, chat_id, name, "ok")
    /\ UNCHANGED <<clock, putLog>>

SyncChatHistoryOp(wallet_address, chat_id, history) ==
    /\ chats' = SyncChatHistory(chats, wallet_address, chat_id, history, clock)
    /\ putLog' = IF history.virtualFiles.kind = "dict"
                 THEN DropLogs(putLog, LogKeysOfChat(wallet_address, chat_id))
                 ELSE putLog
    /\ last' = Op("sync_chat_history", wallet_address, chat_id, history, "ok")
    /\ UNCHANGED clock

\* mutation: a missing chat is created to take the message
AddMessageToChat_Creating(wallet_address, chat_id, message) ==
    /\ chats' = [(IF HasChat(chats, wallet_address, chat_id) THEN chats
                  ELSE CreateChat(chats, wallet_address, chat_id, <<>>))
                    EXCEPT ![wallet_address][chat_id] = AddMessage(@, message)]
    /\ last' = Op("add_message", wallet_address, chat_id, message, "ok")
    /\ UNCHANGED <<clock, putLog>>

AddMessageToChat(wallet_address, chat_id, message) ==
    /\ IF HasChat(chats, wallet_address, chat_id)
       THEN /\ chats' = [chats EXCEPT ![wallet_address][chat_id] =
                            AddMessage(@, message)]
            /\ last' = Op("add_message", wallet_address, chat_id, message, "ok")
       ELSE /\ chats' = chats
            /\ last' = Op("add_message", wallet_address, chat_id, <<>>, "ValueError")
    /\ UNCHANGED <<clock, putLog>>

AddVirtualFileToChat(wallet_address, chat_id, path, content, language) ==
    LET key == <<wallet_address, chat_id, AddBaseName(path)>>
        arg == [path |-> path, content |-> content, language |-> language,
                same |-> /\ HasChat(chats, wallet_address, chat_id)
                         /\ key[3] \in DOMAIN chats[wallet_address][chat_id].virtual_files
                         /\ chats[wallet_address][chat_id].virtual_files[key[3]].content
                               = content]
    IN /\ IF HasChat(chats, wallet_address, chat_id)
          THEN LET chat == chats[wallet_address][chat_id]
                   name == AddBaseName(path)
                   pristine == /\ name \notin DOMAIN chat.virtual_files
                               /\ name \notin DOMAIN chat.virtual_file_history
               IN /\ chats' = [chats EXCEPT ![wallet_address][chat_id] =
                                  AddVirtualFile(@, path, content, language, clock)]
                  /\ putLog' =
                       IF key \in DOMAIN putLog
                       THEN IF content # putLog[key][Len(putLog[key])]
                            THEN [putLog EXCEPT ![key] = Append(@, content)]
                            ELSE putLog
                       ELSE IF pristine THEN DictSet(putLog, key, <<content>>)
                            ELSE putLog
                  /\ last' = Op("add_virtual_file", wallet_address, chat_id, arg, "ok")
          ELSE /\ UNCHANGED <<chats, putLog>>
               /\ last' = Op("add_virtual_file", wallet_address, chat_id, <<>>,
                             "ValueError")
       /\ UNCHANGED clock

DeleteVirtualFileFromChat(wallet_address, chat_id, path) ==
    /\ IF HasChat(chats, wallet_address, chat_id)
       THEN /\ chats' = [chats EXCEPT ![wallet_address][chat_id] =
                            DeleteVirtualFile(@, path)]
            /\ putLog' = DropLogs(putLog,
                                  {<<wallet_address, chat_id, DeleteBaseName(path)>>})
            /\ last' = Op("delete_virtual_file", wallet_address, chat_id, path, "ok")
       ELSE /\ UNCHANGED <<chats, putLog>>
            /\ last' = Op("delete_virtual_file", wallet_address, chat_id, <<>>,
                          "ValueError")
    /\ UNCHANGED clock

DeleteChatOp(wallet_address, chat_id) ==
    /\ chats' = DeleteChat(chats, wallet_address, chat_id)
    /\ putLog' = DropLogs(putLog, LogKeysOfChat(wallet_address, chat_id))
    /\ last' = Op("delete_chat", wallet_address, chat_id, <<>>, "ok")
    /\ UNCHANGED clock

\* the current files, the history entries and the messages of a wallet
FileSlots(store, wallet_address) ==
    LET cs == UserChats(store, wallet_address)
    IN UNION {{<<wallet_address, c, n>> : n \in DOMAIN cs[c].virtual_files} :
                c \in DOMAIN cs}

HistSlots(store, wallet_address) ==
    LET cs == UserChats(store, wallet_address)
    IN UNION {UNION {{<<wallet_address, c, n, i>> :
                        i \in 1..Len(cs[c].virtual_file_history[n])} :
                     n \in DOMAIN cs[c].virtual_file_history} :
                c \in DOMAIN cs}

MsgSlots(store, wallet_address) ==
    LET cs == UserChats(store, wallet_address)
    IN UNION {{<<wallet_address, c, i>> : i \in 1..Len(cs[c].messages)} :
                c \in DOMAIN cs}

FilesOfOwner(store, wallet_address) == Cardinality(FileSlots(store, wallet_address))

HistOfOwner(store, wallet_address) == Cardinality(HistSlots(store, wallet_address))

MsgsOfOwner(store, wallet_address) == Cardinality(MsgSlots(store, wallet_address))

CleanUserCacheOp(wallet_address) ==
    /\ chats' = CleanUserCache(chats, wallet_address, clock)
    /\ putLog' = DropLogs(putLog, LogKeysOfOwner(wallet_address))
    /\ last' = Op("clean_user_cache", wallet_address, "",
                  [files |-> FilesOfOwner(chats, wallet_address),
                   hist |-> HistOfOwner(chats, wallet_address)], "ok")
    /\ UNCHANGED clock

(***************************************************************************)
(* Spec: the whole store, two wallets, bounded in its total size.          *)
(***************************************************************************)
TotalFiles(store) ==
    Cardinality(UNION {FileSlots(store, w) : w \in DOMAIN store})

TotalHist(store) ==
    Cardinality(UNION {HistSlots(store, w) : w \in DOMAIN store})

TotalMsgs(store) ==
    Cardinality(UNION {MsgSlots(store, w) : w \in DOMAIN store})

Within(store) ==
    /\ TotalFiles(store) <= MaxFiles
    /\ TotalHist(store) <= MaxHist
    /\ TotalMsgs(store) <= MaxMsgs

\* snapshots sent by a reconnecting client
SnapshotInputs ==
    {[name |-> <<>>,
      messages |-> [kind |-> "list", items |-> <<MsgAi, MsgNoText>>],
      virtualFiles |-> [kind |-> "absent", items |-> <<>>]]}

\* the chats addressed by the connected clients
ChatKeys == {<<"0xA", "c1">>, <<"0xA", "c2">>, <<"0xB", "c1">>}

Next ==
    /\ \/ \E k \in ChatKeys : CreateChatOp(k[1], k[2], <<>>)
       \/ \E k \in ChatKeys, h \in SnapshotInputs : SyncChatHistoryOp(k[1], k[2], h)
       \/ \E k \in ChatKeys : AddMessageToChat(k[1], k[2], MsgAi)
       \/ \E k \in ChatKeys, p \in {PathToken999}, x \in Contents, l \in Languages :
             AddVirtualFileToChat(k[1], k[2], p, x, l)
       \/ \E k \in ChatKeys, p \in {PathToken999} :
             DeleteVirtualFileFromChat(k[1], k[2], p)
       \/ \E w \in Owners : CleanUserCacheOp(w)
    /\ Within(chats')
    /\ UNCHANGED <<extractVars, routerVars>>

Spec == Init /\ [][Next]_vars

(***************************************************************************)
(* SpecFile: the file operations on one chat, to the depth at which the    *)
(* history evicts.                                                         *)
(***************************************************************************)
FileSnapshots ==
    {[name |-> <<>>, messages |-> [kind |-> "absent", items |-> <<>>],
      virtualFiles |-> f] : f \in FilesInputs}

NextFile ==
    /\ \/ \E h \in FileSnapshots : SyncChatHistoryOp("0xA", "c1", h)
       \/ \E p \in {PathToken999, PathTokenOther}, x \in Contents, l \in Languages :
             AddVirtualFileToChat("0xA", "c1", p, x, l)
       \/ \E p \in {PathToken999, PathTokenOther} :
             DeleteVirtualFileFromChat("0xA", "c1", p)
       \/ CleanUserCacheOp("0xA")
    /\ \A k \in DOMAIN putLog' : Len(putLog'[k]) <= MaxPuts
    /\ UNCHANGED <<extractVars, routerVars>>

SpecFile == Init /\ [][NextFile]_vars

(***************************************************************************)
(* Properties of the file operations (SpecFile).                           *)
(***************************************************************************)
HistoryOf(chat, name) ==
    IF name \in DOMAIN chat.virtual_file_history
    THEN chat.virtual_file_history[name] ELSE <<>>

ContentsOf(history) == [j \in 1..Len(history) |-> history[j].content]

\* C1: after i >= 1 puts with changing content to one file of one chat, the
\* history has length min(5, i-1) and holds the most recent prior contents
\* in the order they were replaced (the oldest is the one dropped).
C1_HistoryAfterPuts ==
    \A k \in DOMAIN putLog :
        LET log == putLog[k]
            i == Len(log)
            chat == chats[k[1]][k[2]]
            history == HistoryOf(chat, k[3])
        IN /\ i >= 1
           /\ Len(history) = Min2(5, i - 1)
           /\ ContentsOf(history) = LastN(SubSeq(log, 1, i - 1), 5)
           /\ chat.virtual_files[k[3]].content = log[i]

\* seven puts with changing content: the sixth push has evicted an entry
C1_Witness ==
    \E k \in DOMAIN putLog :
        /\ Len(putLog[k]) >= 7
        /\ Len(HistoryOf(chats[k[1]][k[2]], k[3])) = 5

\* C2: a put whose content equals the current content of the same canonical
\* file leaves the history of that file unchanged.
C2_IdenticalPutKeepsHistory ==
    [][(/\ last'.op = "add_virtual_file"
        /\ last'.result = "ok"
        /\ HasChat(chats, last'.owner, last'.chat)
        /\ LET chat == chats[last'.owner][last'.chat]
               name == AddBaseName(last'.arg.path)
           IN /\ name \in DOMAIN chat.virtual_files
              /\ chat.virtual_files[name].content = last'.arg.content)
       => chats'[last'.owner][last'.chat].virtual_file_history
             = chats[last'.owner][last'.chat].virtual_file_history]_vars

\* an identical put has been made on a file whose history is full
C2_Witness ==
    /\ last.op = "add_virtual_file"
    /\ last.result = "ok"
    /\ last.arg.same
    /\ Len(HistoryOf(chats[last.owner][last.chat], AddBaseName(last.arg.path))) = 5

\* C3: after a put through one path, a get through any path with the same
\* canonical name returns the content just put; after a delete through one
\* path, a get through any such path finds nothing.
C3_PutGetSameCanonicalName ==
    /\ (last.op = "add_virtual_file" /\ last.result = "ok") =>
         \A q \in Paths :
            AddBaseName(q) = AddBaseName(last.arg.path) =>
               LET r == GetVirtualFile(chats[last.owner][last.chat], q, NoVersion)
               IN r.found /\ r.data.content = last.arg.content
    /\ (last.op = "delete_virtual_file" /\ last.result = "ok") =>
         \A q \in Paths :
            AddBaseName(q) = AddBaseName(last.arg) =>
               ~GetVirtualFile(chats[last.owner][last.chat], q, NoVersion).found

\* a put through one path is read back through another path
C3_Witness ==
    /\ last.op = "add_virtual_file"
    /\ last.result = "ok"
    /\ \E q \in Paths :
          /\ q # last.arg.path
          /\ AddBaseName(q) = AddBaseName(last.arg.path)
          /\ GetVirtualFile(chats[last.owner][last.chat], q, NoVersion).found

\* C4: every key of the current-file map of a chat is a canonical name, and
\* no two current files have the same canonical name.
C4_OneVersionPerCanonicalName ==
    \A w \in DOMAIN chats : \A c \in DOMAIN chats[w] :
        LET files == chats[w][c].virtual_files
        IN /\ \A n \in DOMAIN files : AddBaseName(n) = n
           /\ \A n1, n2 \in DOMAIN files :
                 AddBaseName(n1) = AddBaseName(n2) => n1 = n2

(***************************************************************************)
(* SpecSync: resynchronization of one chat from every bounded snapshot.    *)
(***************************************************************************)
SyncInputs ==
    {h \in HistoryInputs :
        h.virtualFiles.kind = "absent" \/ Len(h.virtualFiles.items) = 2}

NextSync ==
    /\ \/ \E h \in SyncInputs : SyncChatHistoryOp("0xA", "c1", h)
       \/ \E m \in {MsgUser, MsgAi} : AddMessageToChat("0xA", "c1", m)
       \/ DeleteChatOp("0xA", "c1")
       \/ Tick
    /\ \A w \in DOMAIN chats' : \A c \in DOMAIN chats'[w] :
          Len(chats'[w][c].messages) <= MaxImport + 1
    /\ UNCHANGED <<extractVars, routerVars>>

SpecSync == Init /\ [][NextSync]_vars

(***************************************************************************)
(* Properties of the resynchronization (SpecSync) and of the cleanup       *)
(* (Spec).                                                                 *)
(***************************************************************************)
\* the positions of the imported entries that are objects with text and sender
ImportedGood(items) ==
    {i \in 1..Len(items) :
        items[i].isdict /\ {"text", "sender"} \subseteq items[i].keys}

\* the j-th smallest element of a set of positions
Nth(S, j) == CHOOSE i \in S : Cardinality({k \in S : k < i}) = j - 1

\* C9: sync_chat_history returns normally whatever the imported messages,
\* and the chat's messages are then exactly the imported entries that are
\* objects with text and sender, in their order (a missing timestamp filled in).
C9_SyncDropsMalformed ==
    (last.op = "sync_chat_history") =>
        LET items == IF last.arg.messages.kind = "list"
                     THEN last.arg.messages.items ELSE <<>>
            good == ImportedGood(items)
        IN /\ last.result = "ok"
           /\ HasChat(chats, last.owner, last.chat)
           /\ LET stored == chats[last.owner][last.chat].messages
              IN /\ Len(stored) = Cardinality(good)
                 /\ \A j \in 1..Len(stored) :
                       LET msg == items[Nth(good, j)]
                       IN /\ stored[j].text = msg.text
                          /\ stored[j].sender = msg.sender
                          /\ stored[j].isdict
                          /\ stored[j].keys = msg.keys \cup {"timestamp"}
                          /\ "timestamp" \in msg.keys => stored[j] = msg

\* one well-formed and one malformed message were imported: one is stored
C9_Witness ==
    /\ last.op = "sync_chat_history"
    /\ last.arg.messages.kind = "list"
    /\ Len(last.arg.messages.items) = 2
    /\ Cardinality(ImportedGood(last.arg.messages.items)) = 1
    /\ Len(chats[last.owner][last.chat].messages) = 1

\* C10: clean_user_cache(owner) empties the current files and the file
\* history of every chat of the owner, keeps their messages, marks them
\* disconnected, and changes no chat of another owner.
C10_CleanupFrame ==
    [][(last'.op = "clean_user_cache") =>
          /\ DOMAIN chats' = DOMAIN chats
          /\ \A w \in DOMAIN chats :
                IF w # last'.owner THEN chats'[w] = chats[w]
                ELSE /\ DOMAIN chats'[w] = DOMAIN chats[w]
                     /\ \A c \in DOMAIN chats[w] :
                           /\ chats'[w][c].virtual_files = <<>>
                           /\ chats'[w][c].virtual_file_history = <<>>
                           /\ chats'[w][c].messages = chats[w][c].messages
                           /\ chats'[w][c].metadata["connection_state"]
                                 = "disconnected"]_vars

\* a cleanup has cleared files and history of an owner with two chats and a
\* transcript, while another owner holds a file
C10_Witness ==
    /\ last.op = "clean_user_cache"
    /\ last.arg.files >= 1
    /\ last.arg.hist >= 1
    /\ Cardinality(DOMAIN UserChats(chats, last.owner)) = 2
    /\ MsgsOfOwner(chats, last.owner) >= 1
    /\ \E w \in DOMAIN chats : w # last.owner /\ FilesOfOwner(chats, w) >= 1

(***************************************************************************)
(* SpecExtract: parse_actions applied to every bounded response, with and  *)
(* without a bound current file.                                           *)
(***************************************************************************)
LineEmpty == <<>>
LineSpace == <<" ">>
LineIndented == <<" ", "B">>
LineKeyword == <<"Idea:", "A">>
LineOpen == <<Fence, "solidity">>
LineClose == <<Fence>>
Lines == {LineEmpty, LineSpace, LineIndented, LineKeyword, LineOpen, LineClose}

LineSeqs == UNION {[1..n -> Lines] : n \in 1..MaxLines}

\* "\n".join(lines)
RECURSIVE JoinLines(_)
JoinLines(ls) ==
    IF Len(ls) = 0 THEN <<>>
    ELSE IF Len(ls) = 1 THEN ls[1]
    ELSE ls[1] \o <<"\n">> \o JoinLines(Tail(ls))

OldCode == <<"old">>

ContextInputs ==
    {[file |-> None, code |-> None, file_system |-> <<>>],
     [file |-> Some(PathVault), code |-> None, file_system |-> <<>>],
     [file |-> Some(PathVault), code |-> Some(OldCode), file_system |-> <<>>]}

InitExtract ==
    /\ StoreInit
    /\ RouterIdle
    /\ response \in {JoinLines(ls) : ls \in LineSeqs}
    /\ current_contract_context \in ContextInputs
    /\ actions = <<>>
    /\ pc = "ready"

ParseActionsOp ==
    /\ pc = "ready"
    /\ LET r == ParseActions(response, current_contract_context)
       IN /\ actions' = r.actions
          /\ current_contract_context' = r.context
    /\ pc' = "parsed"
    /\ UNCHANGED <<response, storeVars, routerVars>>

NextExtract == ParseActionsOp

SpecExtract == InitExtract /\ [][NextExtract]_vars

(***************************************************************************)
(* Properties of parse_actions (SpecExtract).                              *)
(***************************************************************************)
Parsing == pc = "ready" /\ pc' = "parsed"

\* a line that opens a fence of the target language
IsOpener(line) == StartsSolidityFence(line) /\ ~HasKeyword(line)

\* a line that closes an open fence
IsCloser(line) == StartsFence(line) /\ ~StartsSolidityFence(line)

\* the text between the marker lines o and c
FencedText(lines, o, c) == JoinLines(SubSeq(lines, o + 1, c - 1))

\* lines o..c are one closed fence with non-blank content, and nothing but
\* blank lines follows it
ClosedFence(lines, o, c) ==
    /\ o < c /\ c <= Len(lines)
    /\ IsOpener(lines[o])
    /\ \A j \in (o + 1)..(c - 1) : ~StartsFence(lines[j])
    /\ IsCloser(lines[c])
    /\ Strip(FencedText(lines, o, c)) # <<>>
    /\ \A j \in (c + 1)..Len(lines) : Strip(lines[j]) = <<>>

\* line k lies inside a fence: the last marker line before it is an opener
InsideFence(lines, k) ==
    \E o \in 1..(k - 1) :
        /\ IsOpener(lines[o])
        /\ \A j \in (o + 1)..(k - 1) : ~StartsFence(lines[j])

\* C5: a keyword line followed by one closed fence with non-blank content
\* gives exactly two message actions (the keyword line, then the wrapped
\* code), in either editing mode, and the edit context is left as it was.
C5_SuggestionYieldsMessages ==
    [][Parsing =>
         LET lines == SplitLines(response)
         IN \A c \in 3..Len(lines) :
               (HasKeyword(lines[1]) /\ ClosedFence(lines, 2, c)) =>
                  /\ Len(actions') = 2
                  /\ actions'[1] = MessageAction(Strip(lines[1]))
                  /\ actions'[2] =
                        MessageAction(ExampleContent(Strip(FencedText(lines, 2, c))))
                  /\ current_contract_context' = current_contract_context]_vars

\* a suggestion with its fence was parsed while a file with code was bound
C5_Witness ==
    /\ pc = "parsed"
    /\ LET lines == SplitLines(response)
       IN \E c \in 3..Len(lines) : HasKeyword(lines[1]) /\ ClosedFence(lines, 2, c)
    /\ Len(actions) = 2
    /\ current_contract_context.file.some
    /\ current_contract_context.code = Some(OldCode)

\* the action a single non-suggestion fence must give, for a given content
FenceAction(context, content) ==
    IF context.file.some THEN EditAction(context.file.v, content)
    ELSE CreateAction(CreatePath(0), content)

\* C6 as stated: a text that is a single closed fence gives exactly one
\* action, an edit of the bound file in editing mode and a create with a
\* synthesized path otherwise, whose content is the fenced text.
C6_FencedTextVerbatim ==
    [][Parsing =>
         LET lines == SplitLines(response)
         IN \A c \in 2..Len(lines) :
               ClosedFence(lines, 1, c) =>
                  actions' = <<FenceAction(current_contract_context,
                                           FencedText(lines, 1, c))>>]_vars

\* C6 amended: as stated, but the content is the fenced text with its
\* leading and trailing whitespace (blank lines included) removed.
C6_FencedTextStripped ==
    [][Parsing =>
         LET lines == SplitLines(response)
         IN \A c \in 2..Len(lines) :
               ClosedFence(lines, 1, c) =>
                  actions' = <<FenceAction(current_contract_context,
                                           Strip(FencedText(lines, 1, c)))>>]_vars

\* a single fence whose text starts or ends with whitespace was parsed in
\* editing mode
C6_Witness ==
    /\ pc = "parsed"
    /\ current_contract_context.file.some
    /\ LET lines == SplitLines(response)
       IN \E c \in 2..Len(lines) :
             /\ ClosedFence(lines, 1, c)
             /\ Strip(FencedText(lines, 1, c)) # FencedText(lines, 1, c)
    /\ Len(actions) = 1
    /\ actions[1].type = "edit_file"

\* C7: a fence opened at line k and never closed contributes nothing: the
\* actions and the edit context are those of the text before line k.
C7_UnterminatedFence ==
    [][Parsing =>
         LET lines == SplitLines(response)
         IN \A k \in 1..Len(lines) :
               (/\ IsOpener(lines[k])
                /\ \A j \in (k + 1)..Len(lines) : ~StartsFence(lines[j])) =>
                  LET before == ParseActions(JoinLines(SubSeq(lines, 1, k - 1)),
                                             current_contract_context)
                  IN /\ actions' = before.actions
                     /\ current_contract_context' = before.context]_vars

\* a text with actions was followed by an unterminated fence holding code
C7_Witness ==
    /\ pc = "parsed"
    /\ Len(actions) >= 1
    /\ LET lines == SplitLines(response)
       IN \E k \in 2..(Len(lines) - 1) :
             /\ IsOpener(lines[k])
             /\ \A j \in (k + 1)..Len(lines) : ~StartsFence(lines[j])
             /\ Strip(lines[k + 1]) # <<>>

\* C8: the actions are in the order of the lines that trigger them (the
\* actions of the first k-1 lines are a prefix of those of the first k
\* lines, which add at most one), and every non-blank line outside a fence
\* that is not a fence marker adds exactly one message action.
C8_ActionsInTextOrder ==
    [][Parsing =>
         LET lines == SplitLines(response)
             context == current_contract_context
             ActionsOf(k) == ParseActions(JoinLines(SubSeq(lines, 1, k)),
                                          context).actions
         IN /\ actions' = ActionsOf(Len(lines))
            /\ \A k \in 1..Len(lines) :
                  LET before == ActionsOf(k - 1)
                      after == ActionsOf(k)
                  IN /\ Len(before) <= Len(after)
                     /\ Len(after) <= Len(before) + 1
                     /\ SubSeq(after, 1, Len(before)) = before
                     /\ (/\ ~InsideFence(lines, k)
                         /\ Strip(lines[k]) # <<>>
                         /\ ~StartsFence(lines[k])) =>
                           after = Append(before, MessageAction(Strip(lines[k])))]_vars

\* a message, a file action and a message were emitted in text order
C8_Witness ==
    /\ pc = "parsed"
    /\ Len(actions) = 3
    /\ actions[1].type = "message"
    /\ actions[2].type \in {"create_file", "edit_file"}
    /\ actions[3].type = "message"

(***************************************************************************)
(* Connection router: handle_websocket_connection and ConnectionManager.   *)
(* A step of a handler runs from one suspension point of its coroutine     *)
(* (transport receive, the LLM call, a pacing delay) to the next; accept   *)
(* and send do not suspend.  A client that goes away is noticed by the     *)
(* handler at its next receive.                                            *)
(***************************************************************************)
MaxRouterMsgs == 2
MaxRouterFiles == 1

\* the websockets offered to the server
Conns == {1, 2}

\* an optional string of the query: None, or a string
Absent == [given |-> FALSE, s |-> ""]
Given(x) == [given |-> TRUE, s |-> x]

\* the characters of the identities offered at connect time
Chars(w) == CASE w = "0xA" -> <<"0", "x", "A">>
              [] w = "0xB" -> <<"0", "x", "B">>
              [] w = "A" -> <<"A">>
              [] OTHER -> <<>>

WalletInputs == {Absent, Given(""), Given("A"), Given("0xA"), Given("0xB")}

\* "c1" stands for a string uuid.UUID accepts, "zz" for one it rejects
ChatIdInputs == {Absent, Given("c1"), Given("zz")}

\* the truth value of an optional string
Truthy(x) == x.given /\ x.s # ""

\* mutation: any non-empty identity is accepted
WalletAccepted_NonEmpty(wallet_address) == wallet_address.given /\ wallet_address.s # ""

\* wallet_address and wallet_address.startswith('0x')
WalletAccepted(wallet_address) ==
    /\ wallet_address.given
    /\ Chars(wallet_address.s) # <<>>
    /\ Len(Chars(wallet_address.s)) >= 2
    /\ SubSeq(Chars(wallet_address.s), 1, 2) = <<"0", "x">>

\* uuid.UUID(chat_id) does not raise
IsUuid(chat_id) == chat_id \in ChatIds

\* chat_id or message_data.get("chat_id")
CurrentChatId(chat_id, frame_chat_id) ==
    IF Truthy(chat_id) THEN chat_id ELSE frame_chat_id

\* the keys of ChatManager.chats in insertion order, after a step that
\* left the store as store
OrderAfter(order, store) ==
    LET known == {order[i] : i \in 1..Len(order)}
        new == (DOMAIN store) \ known
    IN IF new = {} THEN order ELSE Append(order, CHOOSE w \in new : TRUE)

\* get_chat_by_id: the first wallet, in insertion order, that has the chat
ChatOwnersById(store, order, chat_id) ==
    {i \in 1..Len(order) : HasChat(store, order[i], chat_id)}

GetChatById(store, order, chat_id) ==
    LET found == ChatOwnersById(store, order, chat_id)
    IN IF found = {} THEN [found |-> FALSE, wallet |-> ""]
       ELSE [found |-> TRUE,
             wallet |-> order[CHOOSE i \in found : \A j \in found : i <= j]]

\* an outbound frame; content is a token sequence
Event(type, content) == [type |-> type, content |-> content, path |-> <<>>]
FileEvent(type, content, path) == [type |-> type, content |-> content, path |-> path]

\* ConnectionManager.send_message: the frames go to the websocket registered
\* for the wallet, if there is one
SendMessage(registry, wallet_address, events) ==
    IF wallet_address \in DOMAIN registry
    THEN [i \in 1..Len(events) |-> [to |-> registry[wallet_address], event |-> events[i]]]
    ELSE <<>>

\* the state of one handler coroutine
Handler(at, wallet_address, chat_id) ==
    [pc |-> at, wallet |-> wallet_address, chat_id |-> chat_id,
     cur |-> Absent, agent |-> 0, message |-> "", response |-> "",
     todo |-> <<>>]

\* the handlers that sit in their receive loop
Receiving(c) == c \in DOMAIN handlers /\ handlers[c].pc = "recv"

\* the handlers that have a conversational turn in flight
InTurn(c) == c \in DOMAIN handlers /\ handlers[c].pc \in {"llm", "pause", "actions"}

(***************************************************************************)
(* Agent(file_manager, chat_manager): the class the router instantiates    *)
(* is not among the sources; an agent owns one EditActions (its contract   *)
(* context) and one MessageActions (its conversation histories).           *)
(***************************************************************************)
NewAgent ==
    [context |-> [file |-> None, code |-> None, file_system |-> <<>>],
     conversation_histories |-> <<>>]

\* ConnectionManager.connect: the registry after the websocket is accepted
ManagerConnect(registry, wallet_address, c) == DictSet(registry, wallet_address, c)

\* ConnectionManager.disconnect: the registry entry of the wallet is deleted
ManagerDisconnect(registry, wallet_address) ==
    IF wallet_address \in DOMAIN registry THEN DictDel(registry, wallet_address)
    ELSE registry

\* handle_websocket_connection up to its first receive
Connect(c, wallet_address, chat_id) ==
    /\ c \notin DOMAIN handlers
    /\ IF ~WalletAccepted(wallet_address)
       THEN /\ handlers' = DictSet(handlers, c,
                                   Handler("rejected", wallet_address.s, chat_id))
            /\ sent' = <<>>
            /\ UNCHANGED <<active_connections, agents, heap, chats, wallet_order>>
       ELSE LET w == wallet_address.s
            IN /\ active_connections' = ManagerConnect(active_connections, w, c)
               /\ agents' = ManagerConnect(agents, w, c)
               /\ heap' = DictSet(heap, c, NewAgent)
               /\ sent' = <<[to |-> c, event |-> Event("contexts_loaded", <<>>)]>>
               /\ IF Truthy(chat_id) /\ ~IsUuid(chat_id.s)
                  THEN /\ handlers' = DictSet(handlers, c, Handler("closed", w, chat_id))
                       /\ UNCHANGED <<chats, wallet_order>>
                  ELSE /\ handlers' = DictSet(handlers, c, Handler("recv", w, chat_id))
                       /\ chats' = IF Truthy(chat_id)
                                      /\ ~GetChatById(chats, wallet_order, chat_id.s).found
                                   THEN CreateChat(chats, w, chat_id.s, <<>>)
                                   ELSE chats
                       /\ wallet_order' = OrderAfter(wallet_order, chats')
    /\ last' = Op("connect", wallet_address.s, chat_id.s, wallet_address, c)
    /\ UNCHANGED <<clock, putLog, extractVars>>

\* the handler leaves its loop through manager.disconnect
Leave(c) ==
    LET w == handlers[c].wallet
    IN /\ active_connections' = ManagerDisconnect(active_connections, w)
       /\ agents' = ManagerDisconnect(agents, w)
       /\ chats' = CleanUserCache(chats, w, clock)
       /\ handlers' = [handlers EXCEPT ![c].pc = "closed"]
       /\ sent' = <<>>
       /\ UNCHANGED <<heap, wallet_order>>

\* receive_text raises WebSocketDisconnect: the client went away
ReceiveDisconnect(c) ==
    /\ Receiving(c)
    /\ Leave(c)
    /\ last' = Op("disconnect", handlers[c].wallet, "", <<>>, c)
    /\ UNCHANGED <<clock, putLog, extractVars>>

\* json.loads raises JSONDecodeError: one error frame, the loop goes on
ReceiveInvalidJson(c) ==
    /\ Receiving(c)
    /\ sent' = SendMessage(active_connections, handlers[c].wallet,
                           <<Event("error", <<"Invalid message format">>)>>)
    /\ last' = Op("invalid_json", handlers[c].wallet, "", <<>>, c)
    /\ UNCHANGED <<active_connections, agents, heap, handlers, wallet_order,
                   chats, clock, putLog, extractVars>>

\* the frame parses to a value that is not an object: message_data.get
\* raises AttributeError, which the outer handler answers by disconnecting
ReceiveNonObject(c) ==
    /\ Receiving(c)
    /\ Leave(c)
    /\ last' = Op("non_object", handlers[c].wallet, "", <<>>, c)
    /\ UNCHANGED <<clock, putLog, extractVars>>

(***************************************************************************)
(* Frames other than conversational ones.  A step takes the fields of the  *)
(* received object that its branch reads.                                  *)
(***************************************************************************)
\* message_data.get("history"): missing, an empty object, a non-empty list,
\* or a snapshot object
NoHistory == [kind |-> "absent", h |-> CHOOSE h \in SnapshotInputs : TRUE]
EmptyHistory == [kind |-> "empty", h |-> CHOOSE h \in SnapshotInputs : TRUE]
ListHistory == [kind |-> "list", h |-> CHOOSE h \in SnapshotInputs : TRUE]
DictHistory(h) == [kind |-> "dict", h |-> h]

RouterSnapshots ==
    {[name |-> <<>>,
      messages |-> [kind |-> "list", items |-> <<MsgUser, MsgNoText>>],
      virtualFiles |-> [kind |-> "absent", items |-> <<>>]],
     [name |-> <<>>,
      messages |-> [kind |-> "absent", items |-> <<>>],
      virtualFiles |-> [kind |-> "dict", items |-> <<>>]],
     [name |-> <<>>,
      messages |-> [kind |-> "absent", items |-> <<>>],
      virtualFiles |-> [kind |-> "dict", items |-> <<Entry(PathVault, FileA)>>]]}

FrameHistories ==
    {NoHistory, EmptyHistory, ListHistory} \cup {DictHistory(h) : h \in RouterSnapshots}

SyncTypes == {"sync_chat_history", "full_history_sync"}

\* mutation: the full variant does not discard the existing chat
DiscardForFullSync_Keep(store, wallet_address, chat_id, message_type) == store

\* the full variant first deletes the existing chat
DiscardForFullSync(store, wallet_address, chat_id, message_type) ==
    IF message_type = "full_history_sync" /\ HasChat(store, wallet_address, chat_id)
    THEN DeleteChat(store, wallet_address, chat_id)
    ELSE store

\* sync_chat_history called with a non-empty list: history.get raises
\* AttributeError, before the chat is created when there is none, after
\* the messages are replaced by the empty list when there is one
SyncWithList(store, wallet_address, chat_id) ==
    IF HasChat(store, wallet_address, chat_id)
    THEN [store EXCEPT ![wallet_address][chat_id].messages = <<>>]
    ELSE store

SyncError(reason) == Event("error", <<"Error syncing chat history: ", reason>>)

ReceiveSync(c, message_type, frame_chat_id, history) ==
    LET w == handlers[c].wallet
        cur == CurrentChatId(handlers[c].chat_id, frame_chat_id)
        s1 == DiscardForFullSync(chats, w, cur.s, message_type)
    IN /\ Receiving(c)
       /\ IF history.kind \in {"absent", "empty"} \/ ~Truthy(cur)
          THEN /\ chats' = chats
               /\ sent' = SendMessage(active_connections, w,
                             <<SyncError("Missing chat history or chat_id")>>)
          ELSE IF history.kind = "list"
          THEN /\ chats' = SyncWithList(s1, w, cur.s)
               /\ sent' = SendMessage(active_connections, w,
                             <<SyncError("AttributeError")>>)
          ELSE /\ chats' = SyncChatHistory(s1, w, cur.s, history.h, clock)
               /\ sent' = SendMessage(active_connections, w,
                             <<Event("chat_synced", <<message_type, cur.s>>)>>)
       /\ wallet_order' = OrderAfter(wallet_order, chats')
       /\ last' = Op(message_type, w, cur.s, history, c)
       /\ UNCHANGED <<active_connections, agents, heap, handlers,
                      clock, putLog, extractVars>>

\* contexts_synced frames are skipped
ReceiveContextsSynced(c) ==
    /\ Receiving(c)
    /\ sent' = <<>>
    /\ last' = Op("contexts_synced", handlers[c].wallet, "", <<>>, c)
    /\ UNCHANGED <<active_connections, agents, heap, handlers, wallet_order,
                   chats, clock, putLog, extractVars>>

\* message_data.get("path"): <<>> is a missing or empty path
FramePaths == {<<>>, PathVault}

\* mutation: the save is confirmed without the file being stored
ReceiveSaveFile_ConfirmOnly(c, frame_chat_id, path, content, language) ==
    LET w == handlers[c].wallet
        cur == CurrentChatId(handlers[c].chat_id, frame_chat_id)
    IN /\ Receiving(c)
       /\ chats' = chats
       /\ sent' = SendMessage(active_connections, w,
                     IF path = <<>>
                     THEN <<Event("error", <<"Error saving file: ",
                                             "No path provided for file">>)>>
                     ELSE IF ~(cur.given /\ HasChat(chats, w, cur.s))
                     THEN <<Event("error", <<"Error saving file: ",
                                             "Chat not found for wallet">>)>>
                     ELSE <<FileEvent("file_saved",
                                      <<"File saved successfully: ">> \o path, path)>>)
       /\ last' = Op("save_file", w, cur.s,
                     [path |-> path, content |-> content], c)
       /\ UNCHANGED <<active_connections, agents, heap, handlers, wallet_order,
                      clock, putLog, extractVars>>

ReceiveSaveFile(c, frame_chat_id, path, content, language) ==
    LET w == handlers[c].wallet
        cur == CurrentChatId(handlers[c].chat_id, frame_chat_id)
    IN /\ Receiving(c)
       /\ IF path = <<>>
          THEN /\ chats' = chats
               /\ sent' = SendMessage(active_connections, w,
                             <<Event("error", <<"Error saving file: ",
                                                "No path provided for file">>)>>)
          ELSE IF ~(cur.given /\ HasChat(chats, w, cur.s))
          THEN /\ chats' = chats
               /\ sent' = SendMessage(active_connections, w,
                             <<Event("error", <<"Error saving file: ",
                                                "Chat not found for wallet">>)>>)
          ELSE /\ chats' = [chats EXCEPT ![w][cur.s] =
                               AddVirtualFile(@, path, content, language, clock)]
               /\ sent' = SendMessage(active_connections, w,
                             <<FileEvent("file_saved",
                                         <<"File saved successfully: ">> \o path,
                                         path)>>)
       /\ last' = Op("save_file", w, cur.s,
                     [path |-> path, content |-> content], c)
       /\ UNCHANGED <<active_connections, agents, heap, handlers, wallet_order,
                      clock, putLog, extractVars>>

\* ChatManager.get_virtual_file_from_chat
GetVirtualFileFromChat(store, wallet_address, chat_id, path, version) ==
    IF HasChat(store, wallet_address, chat_id)
    THEN GetVirtualFile(store[wallet_address][chat_id], path, version)
    ELSE NotFound

ReceiveGetFileVersion(c, frame_chat_id, path, version) ==
    LET w == handlers[c].wallet
        cur == CurrentChatId(handlers[c].chat_id, frame_chat_id)
        file_data == IF cur.given
                     THEN GetVirtualFileFromChat(chats, w, cur.s, path, version)
                     ELSE NotFound
    IN /\ Receiving(c)
       /\ sent' = SendMessage(active_connections, w,
                     IF path = <<>>
                     THEN <<Event("error", <<"Error getting file version: ",
                                             "No path provided for file">>)>>
                     ELSE IF file_data.found
                     THEN <<FileEvent("file_version", <<file_data.data.content>>, path)>>
                     ELSE <<Event("error", <<"File version not found: ">> \o path)>>)
       /\ last' = Op("get_file_version", w, cur.s,
                     [path |-> path, version |-> version], c)
       /\ UNCHANGED <<active_connections, agents, heap, handlers, wallet_order,
                      chats, clock, putLog, extractVars>>

\* the kinds the dispatch compares message_type with
RecognizedTypes ==
    {"sync_chat_history", "full_history_sync", "contexts_synced", "save_file",
     "get_file_version", "message"}

UnknownTypes == {"ping"}

\* a frame of any other kind falls through every branch
ReceiveUnknown(c, message_type) ==
    /\ Receiving(c)
    /\ message_type \notin RecognizedTypes
    /\ sent' = <<>>
    /\ last' = Op("unknown", handlers[c].wallet, "", message_type, c)
    /\ UNCHANGED <<active_connections, agents, heap, handlers, wallet_order,
                   chats, clock, putLog, extractVars>>

(***************************************************************************)
(* The conversational turn: the message branch of the handler,             *)
(* Agent.process_message and MessageActions.process_message.  The Agent    *)
(* class that the router calls is not among the sources: its               *)
(* process_message records the user's message in the chat, runs            *)
(* MessageActions.process_message and records the AI message in the chat   *)
(* when the turn has produced a response.                                  *)
(***************************************************************************)
MaxConversation == 3

\* message_data.get("content"): a plain string, or the JSON text of an
\* object whose "text" member is the string
ContentInputs == {[kind |-> "str", s |-> "hi"], [kind |-> "str", s |-> ""],
                  [kind |-> "json", s |-> "hi"]}

\* validated_content
ValidatedContent(content) == content.s

\* message_data.get("context", {})
NoContext == [currentFile |-> None, currentCode |-> None]
VaultContext == [currentFile |-> Some(PathVault), currentCode |-> Some(OldCode)]
FrameContexts == {NoContext, VaultContext}

\* the response object has no content: response_content = str(response)
UnexpectedShape == "repr"

\* the texts the LLM collaborator returns, by name
Responses == {"fence", "mixed", UnexpectedShape}

TextOf(r) ==
    IF r = "fence" THEN JoinLines(<<LineOpen, LineIndented, LineClose>>)
    ELSE IF r = UnexpectedShape THEN <<"Message(content=[])">>
    ELSE JoinLines(<<LineKeyword, LineOpen, LineIndented, LineClose,
                     LineOpen, LineIndented, LineClose>>)

LlmOutcomes == {[ok |-> FALSE, text |-> ""]} \cup {[ok |-> TRUE, text |-> r] : r \in Responses}

UserMessage(text, now) ==
    [isdict |-> TRUE, keys |-> {"text", "sender", "timestamp"},
     text |-> text, sender |-> "user", timestamp |-> now]

AiMessage(text, now) ==
    [isdict |-> TRUE, keys |-> {"text", "sender", "timestamp"},
     text |-> text, sender |-> "ai", timestamp |-> now]

\* Agent.process_message, before the turn: the user's message is appended
\* to the addressed chat
AgentRecordUser(store, wallet_address, cur, text, now) ==
    IF Truthy(cur) /\ HasChat(store, wallet_address, cur.s)
    THEN [store EXCEPT ![wallet_address][cur.s] = AddMessage(@, UserMessage(text, now))]
    ELSE store

\* Agent.process_message, after the turn: the AI message is appended to
\* the addressed chat
AgentRecordAi(store, wallet_address, cur, text, now) ==
    IF Truthy(cur) /\ HasChat(store, wallet_address, cur.s)
    THEN [store EXCEPT ![wallet_address][cur.s] = AddMessage(@, AiMessage(text, now))]
    ELSE store

\* one entry of a conversation history
Turn(role, content) == [role |-> role, content |-> content]

\* MessageActions._load_conversation_history
LoadConversationHistory(store, order, context_id) ==
    LET chat == GetChatById(store, order, context_id)
        messages == IF chat.found THEN store[chat.wallet][context_id].messages ELSE <<>>
    IN [i \in 1..Len(messages) |->
           Turn(IF messages[i].sender = "ai" THEN "assistant" ELSE "user",
                messages[i].text)]

\* EditActions.update_contract_context
UpdateContractContext(context, file, code, file_system) ==
    [file |-> IF file.some THEN file ELSE context.file,
     code |-> IF code.some THEN code ELSE context.code,
     file_system |-> file_system]

\* mutation: the edit context is rebound to whatever the request carries
StartTurn_Rebinds(agent, store, order, cur, message, context) ==
    [context |-> [file |-> context.currentFile, code |-> context.currentCode,
                  file_system |-> <<>>],
     conversation_histories |->
        LET h0 == agent.conversation_histories
            h1 == IF Truthy(cur) /\ cur.s \notin DOMAIN h0
                  THEN DictSet(h0, cur.s, LoadConversationHistory(store, order, cur.s))
                  ELSE h0
        IN IF Truthy(cur)
           THEN [h1 EXCEPT ![cur.s] = Append(@, Turn("user", message))]
           ELSE h1]

\* MessageActions.process_message up to the LLM call, on the agent's fields
StartTurn(agent, store, order, cur, message, context) ==
    LET h0 == agent.conversation_histories
        h1 == IF Truthy(cur) /\ cur.s \notin DOMAIN h0
              THEN DictSet(h0, cur.s, LoadConversationHistory(store, order, cur.s))
              ELSE h0
        h2 == IF Truthy(cur)
              THEN [h1 EXCEPT ![cur.s] = Append(@, Turn("user", message))]
              ELSE h1
    IN [context |-> IF context.currentFile.some
                    THEN UpdateContractContext(agent.context, context.currentFile,
                                               context.currentCode, <<>>)
                    ELSE agent.context,
        conversation_histories |-> h2]

\* MessageActions.process_message after the last action
EndTurn(agent, cur, response_content) ==
    IF Truthy(cur)
    THEN [agent EXCEPT !.conversation_histories[cur.s] =
             Append(@, Turn("assistant", response_content))]
    ELSE agent

\* EditActions.handle_edit_action is not among the sources: the result
\* carries the path and the content of the action
HandleEditAction(action) == [path |-> action.path, content |-> action.content]

\* MessageActions.handle_action: the event it returns and the store it leaves
HandleAction(store, action, context_id, wallet_address, now) ==
    IF action.type \in {"edit", "file_create"}
    THEN LET result == HandleEditAction(action)
         IN [event |-> FileEvent(IF action.type = "edit" THEN "code_edit"
                                 ELSE "file_create",
                                 result.content, result.path),
             store |-> IF Truthy(context_id)
                          /\ HasChat(store, wallet_address, context_id.s)
                       THEN [store EXCEPT ![wallet_address][context_id.s] =
                                AddVirtualFile(@, result.path, result.content,
                                               "solidity", now)]
                       ELSE store]
    ELSE IF action.type = "delete_file"
    THEN [event |-> FileEvent("file_delete", <<"deleted successfully">>, action.path),
          store |-> store]
    ELSE IF action.type = "compile"
    THEN [event |-> Event("compilation_result", <<>>), store |-> store]
    ELSE IF action.type = "message"
    THEN [event |-> Event("message", action.content), store |-> store]
    ELSE [event |-> Event("error", <<"Unknown action type: ", action.type>>),
          store |-> store]

\* the message branch of the handler, up to the LLM call
ReceiveMessage(c, frame_chat_id, content, context) ==
    LET w == handlers[c].wallet
        cur == CurrentChatId(handlers[c].chat_id, frame_chat_id)
        s1 == IF Truthy(cur) /\ ~HasChat(chats, w, cur.s)
              THEN CreateChat(chats, w, cur.s, <<>>) ELSE chats
        message == ValidatedContent(content)
        s2 == AgentRecordUser(s1, w, cur, message, clock)
    IN /\ Receiving(c)
       /\ wallet_order' = OrderAfter(wallet_order, s1)
       /\ IF w \notin DOMAIN agents
          THEN /\ chats' = s1
               /\ sent' = SendMessage(active_connections, w,
                             <<Event("error", <<"Agent initialization failed">>)>>)
               /\ UNCHANGED <<heap, handlers>>
          ELSE IF message = ""
          THEN /\ chats' = s2
               /\ sent' = SendMessage(active_connections, w,
                             <<Event("message", <<"Ready to help you">>)>>)
               /\ UNCHANGED <<heap, handlers>>
          ELSE /\ chats' = s2
               /\ heap' = [heap EXCEPT ![agents[w]] =
                              StartTurn(@, s2, wallet_order', cur, message, context)]
               /\ handlers' = [handlers EXCEPT ![c].pc = "llm", ![c].cur = cur,
                                               ![c].agent = agents[w],
                                               ![c].message = message]
               /\ sent' = <<>>
       /\ last' = Op("message", w, cur.s, [content |-> content, context |-> context], c)
       /\ UNCHANGED <<active_connections, agents, clock, putLog, extractVars>>

\* the LLM call returns, or fails
LlmReturn(c, outcome) ==
    LET w == handlers[c].wallet
    IN /\ c \in DOMAIN handlers /\ handlers[c].pc = "llm"
       /\ IF outcome.ok
          THEN /\ handlers' = [handlers EXCEPT ![c].pc = "pause",
                                               ![c].response = outcome.text]
               /\ sent' = SendMessage(active_connections, w,
                             <<Event("message", TextOf(outcome.text))>>)
          ELSE /\ handlers' = [handlers EXCEPT ![c].pc = "recv"]
               /\ sent' = SendMessage(active_connections, w,
                             <<Event("error",
                                     <<"Error communicating with Anthropic API">>)>>)
       /\ last' = Op("llm_return", w, handlers[c].cur.s, outcome, c)
       /\ UNCHANGED <<active_connections, agents, heap, wallet_order,
                      chats, clock, putLog, extractVars>>

\* the end of a turn that has produced a response: the assistant entry of
\* the conversation history, then the AI message of the chat; a chat that
\* is gone makes add_message_to_chat raise, which the handler reports
FinishTurn(c, store, objects) ==
    LET h == handlers[c]
        w == h.wallet
        gone == Truthy(h.cur) /\ ~HasChat(store, w, h.cur.s)
    IN /\ heap' = [objects EXCEPT ![h.agent] = EndTurn(@, h.cur, h.response)]
       /\ chats' = AgentRecordAi(store, w, h.cur, h.response, clock)
       /\ handlers' = [handlers EXCEPT ![c].pc = "recv", ![c].todo = <<>>]
       /\ sent' = IF gone
                  THEN SendMessage(active_connections, w,
                          <<Event("error", <<"Error processing message: ",
                                             "Chat not found for wallet">>)>>)
                  ELSE <<>>

\* handle_action on the next action, its event sent, then the pacing delay
StreamAction(c, todo, objects) ==
    LET h == handlers[c]
        r == HandleAction(chats, Head(todo), h.cur, h.wallet, clock)
    IN /\ heap' = objects
       /\ chats' = r.store
       /\ handlers' = [handlers EXCEPT ![c].pc = "actions", ![c].todo = Tail(todo)]
       /\ sent' = SendMessage(active_connections, h.wallet, <<r.event>>)

\* after the pause that follows the first reply: parse_actions on the
\* agent's context, then the first action
AfterPause(c) ==
    /\ c \in DOMAIN handlers /\ handlers[c].pc = "pause"
    /\ LET h == handlers[c]
           r == ParseActions(TextOf(h.response), heap[h.agent].context)
           objects == [heap EXCEPT ![h.agent].context = r.context]
       IN /\ IF r.actions = <<>> THEN FinishTurn(c, chats, objects)
             ELSE StreamAction(c, r.actions, objects)
          /\ last' = Op("parse_actions", h.wallet, h.cur.s, r.actions, c)
    /\ UNCHANGED <<active_connections, agents, wallet_order, clock, putLog,
                   extractVars>>

\* after the pause that follows an action: the next action, or the end of
\* the turn
AfterAction(c) ==
    /\ c \in DOMAIN handlers /\ handlers[c].pc = "actions"
    /\ LET h == handlers[c]
       IN /\ IF h.todo = <<>> THEN FinishTurn(c, chats, heap)
             ELSE StreamAction(c, h.todo, heap)
          /\ last' = Op(IF h.todo = <<>> THEN "end_turn" ELSE "handle_action",
                        h.wallet, h.cur.s, h.todo, c)
    /\ UNCHANGED <<active_connections, agents, wallet_order, clock, putLog,
                   extractVars>>

(***************************************************************************)
(* SpecLoop: one websocket, offered any identity and chat id, and every    *)
(* frame its loop answers without a conversational turn.                   *)
(***************************************************************************)
FrameChatIds == {Absent, Given("c1")}

RouterWithin ==
    /\ TotalFiles(chats') <= MaxRouterFiles
    /\ TotalHist(chats') <= MaxHist
    /\ TotalMsgs(chats') <= MaxRouterMsgs
    /\ \A a \in DOMAIN heap' : \A k \in DOMAIN heap'[a].conversation_histories :
          Len(heap'[a].conversation_histories[k]) <= MaxConversation

NextLoop ==
    /\ \/ \E w \in WalletInputs \ {Given("0xB")}, i \in ChatIdInputs : Connect(1, w, i)
       \/ ReceiveDisconnect(1)
       \/ ReceiveInvalidJson(1)
       \/ ReceiveNonObject(1)
       \/ \E t \in SyncTypes, i \in FrameChatIds, h \in FrameHistories :
             ReceiveSync(1, t, i, h)
       \/ ReceiveContextsSynced(1)
       \/ \E i \in FrameChatIds, p \in FramePaths, x \in Contents :
             ReceiveSaveFile(1, i, p, x, "solidity")
       \/ \E i \in FrameChatIds, p \in FramePaths, v \in {NoVersion, Version(0)} :
             ReceiveGetFileVersion(1, i, p, v)
       \/ \E t \in UnknownTypes : ReceiveUnknown(1, t)
    /\ RouterWithin

SpecLoop == Init /\ [][NextLoop]_vars

(***************************************************************************)
(* SpecTurn: one websocket and the conversational turns of its loop.       *)
(***************************************************************************)
NextTurn ==
    /\ \/ \E i \in ChatIdInputs : Connect(1, Given("0xA"), i)
       \/ ReceiveDisconnect(1)
       \/ \E i \in FrameChatIds, x \in ContentInputs, k \in FrameContexts :
             ReceiveMessage(1, i, x, k)
       \/ \E o \in LlmOutcomes : LlmReturn(1, o)
       \/ AfterPause(1)
       \/ AfterAction(1)
    /\ RouterWithin

SpecTurn == Init /\ [][NextTurn]_vars

(***************************************************************************)
(* SpecRouter: two websockets, offered any identity, and every             *)
(* interleaving of the steps of their handlers.                            *)
(***************************************************************************)
RouterSnapshot ==
    [name |-> <<>>,
     messages |-> [kind |-> "list", items |-> <<MsgUser>>],
     virtualFiles |-> [kind |-> "absent", items |-> <<>>]]

NextRouter ==
    /\ \/ \E c \in Conns, w \in WalletInputs \ {Given("")},
             i \in {Given("c1"), Given("zz")} : Connect(c, w, i)
       \/ \E c \in Conns : ReceiveDisconnect(c)
       \/ \E c \in Conns : ReceiveNonObject(c)
       \/ \E c \in Conns, t \in SyncTypes :
             ReceiveSync(c, t, Given("c1"), DictHistory(RouterSnapshot))
       \/ \E c \in Conns : ReceiveSaveFile(c, Given("c1"), PathVault, "a", "solidity")
       \/ \E c \in Conns : ReceiveGetFileVersion(c, Given("c1"), PathVault, NoVersion)
       \/ \E c \in Conns : ReceiveMessage(c, Given("c1"), [kind |-> "str", s |-> "hi"],
                                          NoContext)
       \/ \E c \in Conns, o \in {o \in LlmOutcomes : o.text \in {"", "fence"}} :
             LlmReturn(c, o)
       \/ \E c \in Conns : AfterPause(c)
       \/ \E c \in Conns : AfterAction(c)
    /\ RouterWithin

SpecRouter == Init /\ [][NextRouter]_vars

(***************************************************************************)
(* Properties of the router: single flight (SpecRouter), the ways a        *)
(* connection ends (SpecRouter), and the answers of the loop to the        *)
(* frames it cannot serve (SpecLoop).                                      *)
(***************************************************************************)
\* the handler that took the last step
Stepper == last'.result

\* C11: while a conversational turn of an owner is in flight, no frame
\* received by another handler of the same owner starts a turn or changes
\* the store: at most one turn per owner, and a second frame has its
\* effects only after the first frame's responses are out.
C11_SingleFlightPerOwner ==
    [][\A c \in DOMAIN handlers, d \in DOMAIN handlers :
          (/\ c # d
           /\ InTurn(c)
           /\ handlers[d].wallet = handlers[c].wallet
           /\ Stepper = d
           /\ last'.op \in RecognizedTypes) =>
              /\ chats' = chats
              /\ handlers'[d].pc \notin {"llm", "pause", "actions"}]_vars

\* the chats of a wallet are as cleanup leaves them
CleanedUp(store, wallet_address) ==
    \A k \in DOMAIN UserChats(store, wallet_address) :
       /\ store[wallet_address][k].virtual_files = <<>>
       /\ store[wallet_address][k].virtual_file_history = <<>>
       /\ "connection_state" \in DOMAIN store[wallet_address][k].metadata
       /\ store[wallet_address][k].metadata["connection_state"] = "disconnected"

\* C12: whenever the handler of an accepted connection ends, the owner is
\* left without an entry in active_connections and in agents, and the
\* owner's chats are cleaned up.
C12_EveryEndRunsDisconnect ==
    [][\A c \in DOMAIN handlers' :
          (/\ handlers'[c].pc = "closed"
           /\ (c \notin DOMAIN handlers \/ handlers[c].pc # "closed")) =>
              LET w == handlers'[c].wallet
              IN /\ w \notin DOMAIN active_connections'
                 /\ w \notin DOMAIN agents'
                 /\ CleanedUp(chats', w)]_vars

\* C13: a frame of an unrecognized kind is answered by one error frame that
\* names the kind, changes no chat, and leaves the handler in its loop.
C13_UnknownKindAnswered ==
    [][last'.op = "unknown" =>
          /\ Len(sent') = 1
          /\ sent'[1].event.type = "error"
          /\ \E j \in 1..Len(sent'[1].event.content) :
                sent'[1].event.content[j] = last'.arg
          /\ chats' = chats
          /\ handlers'[Stepper].pc = "recv"]_vars

\* the frame of the last step could not be served: it did not parse, was
\* not an object, lacked its history or its path, or named a missing chat
FrameFailed ==
    \/ last'.op \in {"invalid_json", "non_object"}
    \/ last'.op \in SyncTypes /\ last'.arg.kind \in {"absent", "empty"}
    \/ /\ last'.op = "save_file"
       /\ \/ last'.arg.path = <<>>
          \/ ~HasChat(chats, last'.owner, last'.chat)

\* C14: every frame that cannot be served is answered by exactly one error
\* frame and the handler stays in its receive loop.
C14_FailuresBecomeOneError ==
    [][FrameFailed =>
          /\ Len(sent') = 1
          /\ sent'[1].event.type = "error"
          /\ handlers'[Stepper].pc = "recv"]_vars

\* the identities that match the address format
ValidIdentities == {Given("0xA"), Given("0xB")}

\* C16: a connection offered a missing or malformed identity is closed
\* without being accepted: nothing is sent, no registry entry is made for
\* it, and no chat is created or modified.
C16_InvalidIdentityRejected ==
    [][(last'.op = "connect" /\ last'.arg \notin ValidIdentities) =>
          /\ handlers'[Stepper].pc = "rejected"
          /\ sent' = <<>>
          /\ active_connections' = active_connections
          /\ agents' = agents
          /\ heap' = heap
          /\ last'.arg.s \notin (DOMAIN active_connections') \cup (DOMAIN agents')
          /\ chats' = chats]_vars

\* a malformed identity was turned away while another owner was connected
\* and held a chat
C16_Witness ==
    /\ last.op = "connect"
    /\ last.arg = Given("A")
    /\ handlers[last.result].pc = "rejected"
    /\ active_connections # <<>>
    /\ chats # <<>>

\* the registry entry of a wallet, if any
EntryOf(registry, wallet_address) ==
    IF wallet_address \in DOMAIN registry THEN {registry[wallet_address]} ELSE {}

\* C20: a step taken for one owner (connect, disconnect, any frame, any
\* step of a turn) leaves the chats, files, file histories, registry
\* entries and agent of every other owner unchanged.
C20_OwnersIndependent ==
    [][\A b \in Owners :
          b # last'.owner =>
             /\ UserChats(chats', b) = UserChats(chats, b)
             /\ EntryOf(active_connections', b) = EntryOf(active_connections, b)
             /\ EntryOf(agents', b) = EntryOf(agents, b)
             /\ \A a \in EntryOf(agents, b) : heap'[a] = heap[a]]_vars

\* one owner disconnected while the other was connected and held a file
C20_Witness ==
    /\ last.op = "disconnect"
    /\ last.owner = "0xA"
    /\ "0xB" \in DOMAIN active_connections
    /\ HasChat(chats, "0xB", "c1")
    /\ chats["0xB"]["c1"].virtual_files # <<>>

(***************************************************************************)
(* Properties of the conversational turn (SpecTurn) and of the two sync    *)
(* variants (SpecLoop).                                                    *)
(***************************************************************************)
\* the messages of the chat a step addresses, <<>> when there is no chat
MessagesOf(store, wallet_address, chat_id) ==
    IF HasChat(store, wallet_address, chat_id)
    THEN store[wallet_address][chat_id].messages ELSE <<>>

C18_ActionsAppliedAndStreamed ==
    [][(last'.op \in {"parse_actions", "handle_action"} /\ last'.arg # <<>>) =>
          LET a == Head(last'.arg)
              stored == GetVirtualFileFromChat(chats', last'.owner, last'.chat,
                                               a.path, NoVersion)
          IN /\ Len(sent') = 1
             /\ sent'[1].event.type # "error"
             /\ a.type = "message" => sent'[1].event.type = "message"
             /\ a.type = "create_file" =>
                   /\ sent'[1].event.type = "file_create"
                   /\ last'.chat # "" => (stored.found /\ stored.data.content = a.content)
             /\ a.type = "edit_file" =>
                   /\ sent'[1].event.type = "code_edit"
                   /\ last'.chat # "" =>
                         (stored.found /\ stored.data.content = a.edit.replace)]_vars

\* the file names a snapshot carries
SnapshotNames(h) ==
    {Basename(h.virtualFiles.items[i].path) : i \in 1..Len(h.virtualFiles.items)}

\* C19: a sync frame with a snapshot is answered by one chat_synced event
\* and leaves the chat with messages taken from the snapshot only; after
\* the full variant the chat has no file history and no file but those of
\* the snapshot; after the incremental variant on an existing chat the
\* file history is the one it had, and so are the current files unless
\* the snapshot carries a files object, which then replaces them.
C19_FullResetsIncrementalMerges ==
    [][(last'.op \in SyncTypes /\ last'.arg.kind = "dict" /\ last'.chat # "") =>
          LET w == last'.owner
              k == last'.chat
              h == last'.arg.h
              new == chats'[w][k]
              old == chats[w][k]
          IN /\ HasChat(chats', w, k)
             /\ Len(sent') = 1
             /\ sent'[1].event.type = "chat_synced"
             /\ Len(new.messages) <= Len(h.messages.items)
             /\ \A i \in 1..Len(new.messages) :
                   \E j \in 1..Len(h.messages.items) :
                      /\ new.messages[i].text = h.messages.items[j].text
                      /\ new.messages[i].sender = h.messages.items[j].sender
             /\ h.virtualFiles.kind = "dict" =>
                   DOMAIN new.virtual_files = SnapshotNames(h)
             /\ last'.op = "full_history_sync" =>
                   /\ new.virtual_file_history = <<>>
                   /\ new.metadata = <<>>
                   /\ h.virtualFiles.kind # "dict" => new.virtual_files = <<>>
             /\ (last'.op = "sync_chat_history" /\ HasChat(chats, w, k)) =>
                   /\ new.virtual_file_history = old.virtual_file_history
                   /\ new.name = old.name
                   /\ new.metadata = old.metadata
                   /\ h.virtualFiles.kind # "dict" =>
                         new.virtual_files = old.virtual_files]_vars

\* an incremental sync replaced the messages of a chat and kept its file
\* and its file history
C19_Witness ==
    /\ last.op = "sync_chat_history"
    /\ last.arg.kind = "dict"
    /\ HasChat(chats, "0xA", "c1")
    /\ chats["0xA"]["c1"].messages # <<>>
    /\ chats["0xA"]["c1"].virtual_files # <<>>
    /\ chats["0xA"]["c1"].virtual_file_history # <<>>

(***************************************************************************)
(* SpecOps: the chat-scoped operations of ChatManager on chats that exist  *)
(* and on chats that do not.                                               *)
(***************************************************************************)
\* get_virtual_file_from_chat; None is the answer for a missing chat
GetVirtualFileFromChatOp(wallet_address, chat_id, path, version) ==
    /\ last' = Op("get_virtual_file", wallet_address, chat_id,
                  [path |-> path, version |-> version],
                  IF GetVirtualFileFromChat(chats, wallet_address, chat_id,
                                            path, version).found
                  THEN "found" ELSE "None")
    /\ UNCHANGED <<chats, clock, putLog>>

OpsKeys == {<<"0xA", "c1">>, <<"0xA", "c2">>, <<"0xB", "c1">>}

NextOps ==
    /\ \/ CreateChatOp("0xA", "c1", <<>>)
       \/ \E k \in OpsKeys, m \in {MsgUser, MsgAi} : AddMessageToChat(k[1], k[2], m)
       \/ \E k \in OpsKeys, x \in Contents :
             AddVirtualFileToChat(k[1], k[2], PathToken999, x, "solidity")
       \/ \E k \in OpsKeys, v \in {NoVersion, Version(0)} :
             GetVirtualFileFromChatOp(k[1], k[2], PathTokenOther, v)
       \/ \E k \in OpsKeys : DeleteVirtualFileFromChat(k[1], k[2], PathToken999)
       \/ DeleteChatOp("0xA", "c1")
    /\ TotalMsgs(chats') <= MaxImport
    /\ TotalHist(chats') <= MaxHist
    /\ UNCHANGED <<extractVars, routerVars>>

SpecOps == Init /\ [][NextOps]_vars

\* C15: an append, put, get or delete addressed to a chat that does not
\* exist reports the failure and leaves the whole store as it was; an
\* append to a chat that exists adds the message at the end and keeps the
\* earlier messages in place.
C15_MissingChatIsNotFound ==
    [][LET w == last'.owner
           k == last'.chat
       IN /\ (/\ last'.op \in {"add_message", "add_virtual_file",
                               "delete_virtual_file", "get_virtual_file"}
              /\ ~HasChat(chats, w, k)) =>
                 /\ chats' = chats
                 /\ last'.result = IF last'.op = "get_virtual_file" THEN "None"
                                   ELSE "ValueError"
          /\ (last'.op = "add_message" /\ HasChat(chats, w, k)) =>
                 /\ last'.result = "ok"
                 /\ chats'[w][k].messages = Append(chats[w][k].messages, last'.arg)
                 /\ \A x \in DOMAIN chats : \A y \in DOMAIN chats[x] :
                       <<x, y>> # <<w, k>> => chats'[x][y] = chats[x][y]]_vars

\* an append to a missing chat failed while another chat held a message
\* and a file
C15_Witness ==
    /\ last.op = "add_message"
    /\ last.result = "ValueError"
    /\ HasChat(chats, "0xA", "c1")
    /\ chats["0xA"]["c1"].messages # <<>>
    /\ chats["0xA"]["c1"].virtual_files # <<>>

(***************************************************************************)
(* Properties of the outbound events (SpecLoop) and of the turn whose LLM  *)
(* call does not give a usable response (SpecTurn).                        *)
(***************************************************************************)
EventTypes == {"message", "file_create", "code_edit", "file_delete",
               "compilation_result", "error", "file_saved", "file_version",
               "chat_synced"}

FileShaped == {"file_create", "code_edit", "file_delete", "file_saved", "file_version"}

\* C21: every frame sent to a client has one of the nine event types, and
\* every file-shaped event carries a path.
C21_EventTypesClosed ==
    \A i \in 1..Len(sent) :
       /\ sent[i].event.type \in EventTypes
       /\ sent[i].event.type \in FileShaped => sent[i].event.path # <<>>

\* C30: when the LLM call fails or returns an object of an unexpected shape
\* the step sends exactly one error event, changes no chat, and the handler
\* is back in its receive loop.
C30_UpstreamFailureIsOneError ==
    [][(/\ last'.op = "llm_return"
        /\ (~last'.arg.ok \/ last'.arg.text = UnexpectedShape)) =>
          /\ Len(sent') = 1
          /\ sent'[1].event.type = "error"
          /\ chats' = chats
          /\ handlers'[Stepper].pc = "recv"]_vars

(***************************************************************************)
(* SpecVersions: the chats of one wallet, and on one of them the puts,     *)
(* gets by version and deletes of one canonical file while the clock       *)
(* advances and a snapshot replaces the current files.                     *)
(***************************************************************************)
\* version: None, or an integer
VersionInputs == {NoVersion} \cup {Version(k) : k \in (-1)..(HistoryLimit + 1)}

\* a snapshot whose files object is empty
EmptyFilesSnapshot ==
    [name |-> <<>>,
     messages |-> [kind |-> "absent", items |-> <<>>],
     virtualFiles |-> [kind |-> "dict", items |-> <<>>]]

NextVersions ==
    /\ \/ CreateChatOp("0xA", "c1", <<>>)
       \/ \E p \in {PathToken999, PathTokenOther}, x \in Contents :
             AddVirtualFileToChat("0xA", "c1", p, x, "solidity")
       \/ \E v \in VersionInputs :
             GetVirtualFileFromChatOp("0xA", "c1", PathToken999, v)
       \/ DeleteVirtualFileFromChat("0xA", "c1", PathTokenOther)
       \/ SyncChatHistoryOp("0xA", "c1", EmptyFilesSnapshot)
    /\ \A k \in DOMAIN putLog' : Len(putLog'[k]) <= MaxPuts
    /\ UNCHANGED <<extractVars, routerVars>>

SpecVersions == Init /\ [][NextVersions]_vars

(***************************************************************************)
(* SpecChats: the chats of one wallet are created, named and deleted,      *)
(* take a message and versions of a file, while the clock advances.        *)
(***************************************************************************)
NextChats ==
    /\ \/ \E c \in ChatIds, n \in NameInputs : CreateChatOp("0xA", c, n)
       \/ \E c \in ChatIds : DeleteChatOp("0xA", c)
       \/ AddMessageToChat("0xA", "c1", MsgUser)
       \/ \E x \in Contents : AddVirtualFileToChat("0xA", "c1", PathVault, x, "solidity")
       \/ Tick
    /\ TotalHist(chats') <= MaxHist
    /\ TotalMsgs(chats') <= MaxMsgs
    /\ UNCHANGED <<extractVars, routerVars>>

SpecChats == Init /\ [][NextChats]_vars

\* C22: a get changes nothing; with no version it returns the current
\* version of the canonical file, or nothing when there is none; with an
\* integer k it returns history[k] exactly when 0 <= k < len(history), and
\* nothing otherwise.
C22_GetByVersion ==
    [][(last'.op = "get_virtual_file" /\ HasChat(chats, last'.owner, last'.chat)) =>
          LET chat == chats[last'.owner][last'.chat]
              name == AddBaseName(last'.arg.path)
              v == last'.arg.version
              history == HistoryOf(chat, name)
              r == GetVirtualFile(chat, last'.arg.path, v)
          IN /\ chats' = chats
             /\ last'.result = IF r.found THEN "found" ELSE "None"
             /\ ~v.given =>
                   /\ r.found <=> name \in DOMAIN chat.virtual_files
                   /\ r.found => r.data = chat.virtual_files[name]
             /\ v.given =>
                   /\ r.found <=> (0 <= v.k /\ v.k < Len(history))
                   /\ r.found => r.data = history[v.k + 1]]_vars

\* the last entry of a full history was read by its index
C22_Witness ==
    /\ last.op = "get_virtual_file"
    /\ last.result = "found"
    /\ last.arg.version = Version(HistoryLimit - 1)
    /\ Len(HistoryOf(chats["0xA"]["c1"], AddBaseName(last.arg.path))) = HistoryLimit

\* C23: after a delete, a get of the canonical name finds nothing, with no
\* version and with every version index, and a second delete changes
\* nothing.
C23_DeleteRemovesAllVersions ==
    [][(last'.op = "delete_virtual_file" /\ last'.result = "ok") =>
          LET chat == chats'[last'.owner][last'.chat]
          IN /\ \A q \in Paths, v \in VersionInputs :
                   AddBaseName(q) = AddBaseName(last'.arg) =>
                      ~GetVirtualFile(chat, q, v).found
             /\ DeleteVirtualFile(chat, last'.arg) = chat]_vars

\* C24: create_chat on a missing (wallet, chat id) adds a chat with no
\* message, no file and no file history, named as asked or "Chat N", and
\* leaves the other chats alone; on an existing one it changes nothing;
\* calling it again changes nothing.
C24_CreateChatIdempotent ==
    [][last'.op = "create_chat" =>
          LET w == last'.owner
              k == last'.chat
              name == last'.arg
          IN /\ HasChat(chats, w, k) => chats' = chats
             /\ ~HasChat(chats, w, k) =>
                   /\ HasChat(chats', w, k)
                   /\ chats'[w][k].messages = <<>>
                   /\ chats'[w][k].virtual_files = <<>>
                   /\ chats'[w][k].virtual_file_history = <<>>
                   /\ chats'[w][k].name =
                         IF name # <<>> THEN name
                         ELSE <<"Chat", " ",
                                ToString(Cardinality(DOMAIN UserChats(chats, w)) + 1)>>
                   /\ \A c \in DOMAIN UserChats(chats, w) :
                         chats'[w][c] = chats[w][c]
             /\ CreateChat(chats', w, k, name) = chats']_vars

\* create_chat was called, under another name, on a chat that holds a
\* message, a file and a file history
C24_Witness ==
    /\ last.op = "create_chat"
    /\ last.arg = <<"N">>
    /\ HasChat(chats, last.owner, last.chat)
    /\ chats[last.owner][last.chat].name # <<"N">>
    /\ chats[last.owner][last.chat].messages # <<>>
    /\ chats[last.owner][last.chat].virtual_files # <<>>
    /\ chats[last.owner][last.chat].virtual_file_history # <<>>

\* C26: a put whose content is the current content leaves the current
\* version of the file as it was (content, language and timestamp) and
\* reports success.
C26_IdenticalPutKeepsEntry ==
    [][(/\ last'.op = "add_virtual_file"
        /\ last'.result = "ok"
        /\ last'.arg.same) =>
          LET name == AddBaseName(last'.arg.path)
          IN chats'[last'.owner][last'.chat].virtual_files[name]
                = chats[last'.owner][last'.chat].virtual_files[name]]_vars

\* C29: a put with changed content on a file whose history holds 5 entries
\* moves every entry one index down and puts the replaced version at index
\* 4, so that get with index k returns what index k+1 returned before;
\* while the history holds fewer than 5 entries the entries keep their
\* index and the replaced version takes the next one.
C29_IndicesShiftWhenFull ==
    [][(/\ last'.op = "add_virtual_file"
        /\ last'.result = "ok"
        /\ ~last'.arg.same
        /\ AddBaseName(last'.arg.path)
              \in DOMAIN chats[last'.owner][last'.chat].virtual_files) =>
          LET before == chats[last'.owner][last'.chat]
              after == chats'[last'.owner][last'.chat]
              path == last'.arg.path
              name == AddBaseName(path)
              old == HistoryOf(before, name)
              new == HistoryOf(after, name)
              replaced == [content |-> before.virtual_files[name].content,
                           timestamp |-> before.virtual_files[name].timestamp]
          IN IF Len(old) = 5
             THEN /\ Len(new) = 5
                  /\ \A k \in 0..3 :
                        /\ new[k + 1] = old[k + 2]
                        /\ GetVirtualFile(after, path, Version(k))
                              = GetVirtualFile(before, path, Version(k + 1))
                  /\ new[5] = replaced
                  /\ GetVirtualFile(after, path, Version(4)) = Found(replaced)
             ELSE /\ Len(new) = Len(old) + 1
                  /\ \A k \in 0..(Len(old) - 1) :
                        /\ new[k + 1] = old[k + 1]
                        /\ GetVirtualFile(after, path, Version(k))
                              = GetVirtualFile(before, path, Version(k))
                  /\ new[Len(new)] = replaced]_vars

\* a put has evicted the oldest entry of a full history
C29_Witness ==
    /\ last.op = "add_virtual_file"
    /\ last.result = "ok"
    /\ ~last.arg.same
    /\ \E k \in DOMAIN putLog :
          /\ k = <<last.owner, last.chat, AddBaseName(last.arg.path)>>
          /\ Len(putLog[k]) = 7
          /\ ContentsOf(HistoryOf(chats[k[1]][k[2]], k[3])) = SubSeq(putLog[k], 2, 6)

(***************************************************************************)
(* SpecFences: parse_actions applied, twice in a row on the same           *)
(* EditActions object, to responses made of keyword lines, plain lines and *)
(* fences, with and without a bound current file.                          *)
(***************************************************************************)
MaxBlocks == 3

LineCode == <<"A">>

Blocks == {<<LineKeyword>>, <<LineIndented>>,
           <<LineOpen, LineClose>>,
           <<LineOpen, LineIndented, LineClose>>,
           <<LineOpen, LineCode, LineClose>>}

BlockSeqs == UNION {[1..n -> Blocks] : n \in 1..MaxBlocks}

\* the lines of the blocks, in order
RECURSIVE Flatten(_)
Flatten(bs) == IF bs = <<>> THEN <<>> ELSE Head(bs) \o Flatten(Tail(bs))

InitFences ==
    /\ StoreInit
    /\ RouterIdle
    /\ response \in {JoinLines(Flatten(bs)) : bs \in BlockSeqs}
    /\ current_contract_context \in ContextInputs
    /\ actions = <<>>
    /\ pc = "ready"

\* a second call of parse_actions on the same response
ParseAgainOp ==
    /\ pc = "parsed"
    /\ LET r == ParseActions(response, current_contract_context)
       IN /\ actions' = r.actions
          /\ current_contract_context' = r.context
    /\ pc' = "again"
    /\ UNCHANGED <<response, storeVars, routerVars>>

NextFences == ParseActionsOp \/ ParseAgainOp

SpecFences == InitFences /\ [][NextFences]_vars

ParsingAgain == pc = "parsed" /\ pc' = "again"

\* C25: a run of the extractor leaves the edit context and the store as
\* they were, and a second run on the same text returns the same list.
C25_ExtractorPure ==
    [][(Parsing \/ ParsingAgain) =>
          /\ current_contract_context' = current_contract_context
          /\ chats' = chats
          /\ ParsingAgain => actions' = actions]_vars

\* the state of the loop of parse_actions after the first n lines
AfterLines(lines, n, context) ==
    ParseLoop(ParseStart(context), SubSeq(lines, 1, n), context.file,
              context.file.some)

\* C27: every line that closes a fence leaves no suggestion pending, also
\* when the buffer of the fence was blank; so a fence that is the first
\* one after another fence's close, with no keyword line in between, gives
\* an edit in editing mode and a create otherwise.
C27_SuggestionResetAtEveryClose ==
    [][Parsing =>
          LET lines == SplitLines(response)
              context == current_contract_context
          IN /\ \A n \in 1..Len(lines) :
                   (/\ AfterLines(lines, n - 1, context).in_code_block
                    /\ IsCloser(lines[n])) =>
                       ~AfterLines(lines, n, context).is_suggestion_block
             /\ \A o \in 1..Len(lines), c \in 1..Len(lines), c0 \in 1..Len(lines) :
                   (/\ ClosedFence(lines, o, c)
                    /\ c0 < o
                    /\ IsCloser(lines[c0])
                    /\ InsideFence(lines, c0)
                    /\ \A j \in (c0 + 1)..(o - 1) :
                          ~HasKeyword(lines[j]) /\ ~StartsFence(lines[j])) =>
                       actions'[Len(actions')] =
                          IF context.file.some
                          THEN EditAction(context.file.v, Strip(FencedText(lines, o, c)))
                          ELSE CreateAction(CreatePath(Len(actions') - 1),
                                            Strip(FencedText(lines, o, c)))]_vars

\* a keyword line, a blank fence, then a fence that gave an edit
C27_Witness ==
    /\ pc = "parsed"
    /\ response = JoinLines(<<LineKeyword, LineOpen, LineClose,
                              LineOpen, LineIndented, LineClose>>)
    /\ Len(actions) = 2
    /\ actions[2].type = "edit_file"

\* C28: in editing mode the code of the context after a run is the content
\* of the last edit action emitted (the content of the last fence when
\* that fence gave an edit), it is unchanged when no edit was emitted, and
\* the bound file is unchanged and is the path of every edit.
C28_EditsUpdateCurrentCode ==
    [][(Parsing /\ current_contract_context.file.some) =>
          LET lines == SplitLines(response)
              edits == {i \in 1..Len(actions') : actions'[i].type = "edit_file"}
          IN /\ current_contract_context'.file = current_contract_context.file
             /\ \A i \in edits : actions'[i].path = current_contract_context.file.v
             /\ edits # {} =>
                   current_contract_context'.code
                      = Some(actions'[SetMax(edits)].edit.replace)
             /\ edits = {} =>
                   current_contract_context'.code = current_contract_context.code
             /\ \A o \in 1..Len(lines), c \in 1..Len(lines) :
                   (/\ ClosedFence(lines, o, c)
                    /\ actions' # <<>>
                    /\ actions'[Len(actions')].type = "edit_file") =>
                       current_contract_context'.code
                          = Some(Strip(FencedText(lines, o, c)))]_vars

\* two fences gave two edits and the code of the context is the content
\* of the second
C28_Witness ==
    /\ pc = "parsed"
    /\ response = JoinLines(<<LineOpen, LineIndented, LineClose,
                              LineOpen, LineCode, LineClose>>)
    /\ Len(actions) = 2
    /\ actions[1].edit.replace = <<"B">>
    /\ current_contract_context.code = Some(LineCode)

(***************************************************************************)
(* Properties of the file frames (SpecLoop).                               *)
(***************************************************************************)
\* the last step confirmed a save_file frame
SaveConfirmed(op, frames) ==
    op.op = "save_file" /\ Len(frames) = 1 /\ frames[1].event.type = "file_saved"

\* C31: a save_file frame confirmed by file_saved names the path and
\* leaves the content as the current version of the file; a
\* get_file_version frame with no version replies with the current
\* version; so a get that follows the save in the same chat and under the
\* same canonical name replies with a file_version event that carries the
\* saved content.
C31_SavedFileReadsBack ==
    [][/\ SaveConfirmed(last', sent') =>
             LET r == GetVirtualFileFromChat(chats', last'.owner, last'.chat,
                                             last'.arg.path, NoVersion)
             IN /\ sent'[1].event.path = last'.arg.path
                /\ r.found
                /\ r.data.content = last'.arg.content
       /\ (/\ last'.op = "get_file_version"
           /\ ~last'.arg.version.given
           /\ last'.arg.path # <<>>
           /\ GetVirtualFileFromChat(chats, last'.owner, last'.chat,
                                     last'.arg.path, NoVersion).found) =>
             /\ Len(sent') = 1
             /\ sent'[1].event.type = "file_version"
             /\ sent'[1].event.path = last'.arg.path
             /\ sent'[1].event.content =
                   <<chats[last'.owner][last'.chat]
                        .virtual_files[AddBaseName(last'.arg.path)].content>>
       /\ (/\ last'.op = "get_file_version"
           /\ ~last'.arg.version.given
           /\ SaveConfirmed(last, sent)
           /\ last'.chat = last.chat
           /\ last'.arg.path # <<>>
           /\ AddBaseName(last'.arg.path) = AddBaseName(last.arg.path)) =>
             /\ Len(sent') = 1
             /\ sent'[1].event.type = "file_version"
             /\ sent'[1].event.content = <<last.arg.content>>]_vars

\* a file saved twice was read back with its second content
C31_Witness ==
    /\ last.op = "get_file_version"
    /\ ~last.arg.version.given
    /\ Len(sent) = 1
    /\ sent[1].event.type = "file_version"
    /\ sent[1].event.content = <<"b">>
    /\ HasChat(chats, "0xA", "c1")
    /\ chats["0xA"]["c1"].virtual_file_history # <<>>

(***************************************************************************)
(* Properties of the files of a chat across resynchronization              *)
(* (SpecVersions, SpecFile).                                               *)
(***************************************************************************)
\* C32: in every chat, every name that has a file history has a current
\* version.
C32_NoOrphanHistory ==
    \A w \in DOMAIN chats : \A c \in DOMAIN chats[w] :
       \A n \in DOMAIN chats[w][c].virtual_file_history :
          chats[w][c].virtual_file_history[n] # <<>> =>
             n \in DOMAIN chats[w][c].virtual_files

\* C33: after sync_chat_history, every well-formed file entry of the
\* snapshot whose path is not repeated by a later entry is returned, with
\* its content, by a get through the path of the entry.
C33_ImportedFilesReadBack ==
    [][(last'.op = "sync_chat_history" /\ last'.arg.virtualFiles.kind = "dict") =>
          LET items == last'.arg.virtualFiles.items
              chat == chats'[last'.owner][last'.chat]
          IN \A i \in 1..Len(items) :
                (/\ FileWellFormed(items[i].data)
                 /\ \A j \in (i + 1)..Len(items) : items[j].path # items[i].path) =>
                    LET r == GetVirtualFile(chat, items[i].path, NoVersion)
                    IN r.found /\ r.data.content = Str(items[i].data.content)]_vars

(***************************************************************************)
(* SpecCreates: parse_actions on a response, then the content of every     *)
(* create action it returned is put under the path of the action in a new  *)
(* chat.                                                                   *)
(***************************************************************************)
\* add_virtual_file_to_chat for every create action of the list, in order
RECURSIVE PutCreated(_, _, _, _, _)
PutCreated(store, wallet_address, chat_id, todo, now) ==
    IF todo = <<>> THEN store
    ELSE PutCreated(IF Head(todo).type = "create_file"
                    THEN [store EXCEPT ![wallet_address][chat_id] =
                             AddVirtualFile(@, Head(todo).path, Head(todo).content,
                                            "solidity", now)]
                    ELSE store,
                    wallet_address, chat_id, Tail(todo), now)

ApplyCreatesOp ==
    /\ pc = "parsed"
    /\ pc' = "stored"
    /\ chats' = PutCreated(CreateChat(chats, "0xA", "c1", <<>>), "0xA", "c1",
                           actions, clock)
    /\ last' = Op("apply_creates", "0xA", "c1", actions, "ok")
    /\ UNCHANGED <<clock, putLog, response, current_contract_context, actions,
                   routerVars>>

NextCreates == ParseActionsOp \/ ApplyCreatesOp

SpecCreates == InitFences /\ [][NextCreates]_vars

\* C34: the create actions of one run have pairwise distinct paths that
\* name pairwise distinct files, and after their contents are put under
\* their paths each content is the current version read through its path.
C34_CreatedFilesDistinct ==
    [][(pc = "parsed" /\ pc' = "stored") =>
          LET created == {i \in 1..Len(actions) : actions[i].type = "create_file"}
          IN /\ \A i \in created, j \in created :
                   i # j =>
                      /\ actions[i].path # actions[j].path
                      /\ AddBaseName(actions[i].path) # AddBaseName(actions[j].path)
             /\ \A i \in created :
                   LET r == GetVirtualFile(chats'["0xA"]["c1"], actions[i].path,
                                           NoVersion)
                   IN r.found /\ r.data.content = actions[i].content]_vars

(***************************************************************************)
(* Properties of two connections that share a wallet or a chat id          *)
(* (SpecRouter).                                                           *)
(***************************************************************************)
\* the handler is in its receive loop: at receive, or inside a frame
InLoop(h) == h.pc \in {"recv", "llm", "pause", "actions"}

\* the current files and the file histories of the chats of a wallet
FilesOf(store, wallet_address) ==
    [c \in DOMAIN UserChats(store, wallet_address) |->
        <<store[wallet_address][c].virtual_files,
          store[wallet_address][c].virtual_file_history>>]

\* C35: when the handler of one connection ends while another accepted
\* connection of the same owner is in its receive loop, the owner keeps
\* its entry in active_connections and in agents and the files of the
\* owner's chats are not cleared.
C35_SecondConnectionSurvivesFirst ==
    [][\A c \in DOMAIN handlers, d \in DOMAIN handlers :
          (/\ c # d
           /\ handlers[c].wallet = handlers[d].wallet
           /\ InLoop(handlers[c])
           /\ InLoop(handlers[d])
           /\ handlers'[c].pc = "closed") =>
              LET w == handlers[d].wallet
              IN /\ w \in DOMAIN active_connections'
                 /\ w \in DOMAIN agents'
                 /\ FilesOf(chats', w) = FilesOf(chats, w)]_vars

\* the texts of the messages stored in the chats of a wallet
TextsOf(store, wallet_address) ==
    UNION {{store[wallet_address][c].messages[i].text :
               i \in 1..Len(store[wallet_address][c].messages)} :
           c \in DOMAIN UserChats(store, wallet_address)}

\* C38: a connection accepted with a valid identity and a valid chat id
\* enters its receive loop with a chat for (owner, chat id), and a
\* save_file frame with a path on such a connection is confirmed by
\* file_saved as long as the chat was not deleted.
C38_ChatExistsAfterConnect ==
    [][/\ (/\ last'.op = "connect"
           /\ handlers'[Stepper].pc = "recv"
           /\ last'.chat # "") =>
             HasChat(chats', last'.owner, last'.chat)
       /\ (/\ last.op = "connect"
           /\ last.chat # ""
           /\ last'.op = "save_file"
           /\ Stepper = last.result
           /\ last'.arg.path # <<>>) =>
             (Len(sent') = 1 /\ sent'[1].event.type = "file_saved")]_vars

(***************************************************************************)
(* SpecPartition: owner 0xA on websocket 1 and owner 0xB on websocket 2    *)
(* use the same chat id; 0xA imports a transcript, both take turns.        *)
(***************************************************************************)
ImportedTranscript ==
    [name |-> <<>>,
     messages |-> [kind |-> "list", items |-> <<MsgAi>>],
     virtualFiles |-> [kind |-> "absent", items |-> <<>>]]

Hi == [kind |-> "str", s |-> "hi"]

NextPartition ==
    /\ \/ Connect(1, Given("0xA"), Given("c1"))
       \/ Connect(2, Given("0xB"), Given("c1"))
       \/ \E c \in Conns : ReceiveDisconnect(c)
       \/ ReceiveSync(1, "sync_chat_history", Given("c1"),
                      DictHistory(ImportedTranscript))
       \/ \E c \in Conns : ReceiveMessage(c, Given("c1"), Hi, NoContext)
       \/ \E c \in Conns, o \in {o \in LlmOutcomes : o.text \in {"", "fence"}} :
             LlmReturn(c, o)
       \/ \E c \in Conns : AfterPause(c)
       \/ \E c \in Conns : AfterAction(c)
    /\ RouterWithin

SpecPartition == Init /\ [][NextPartition]_vars

\* C37: the history loaded from the store when the first turn of an
\* owner on a chat id starts holds, before the new user message, only
\* messages stored in chats of that owner, never the transcript of a
\* chat with that id of another owner.
C37_HistoryFromOwnChatsOnly ==
    [][(/\ last'.op = "message"
        /\ last'.chat # ""
        /\ handlers'[Stepper].pc = "llm"
        /\ last'.chat \notin
              DOMAIN heap[handlers'[Stepper].agent].conversation_histories) =>
          LET history == heap'[handlers'[Stepper].agent]
                            .conversation_histories[last'.chat]
          IN \A i \in 1..(Len(history) - 1) :
                history[i].content \in TextsOf(chats', last'.owner)]_vars

(***************************************************************************)
(* SpecResync: one owner, whose client replaces the transcript of its      *)
(* chat between turns.                                                     *)
(***************************************************************************)
NextResync ==
    /\ \/ \E i \in ChatIdInputs : Connect(1, Given("0xA"), i)
       \/ ReceiveDisconnect(1)
       \/ \E t \in SyncTypes, i \in {Given("c1"), Given("zz")},
             h \in {RouterSnapshot, ImportedTranscript} :
             ReceiveSync(1, t, i, DictHistory(h))
       \/ \E i \in {Given("c1"), Given("zz")} : ReceiveMessage(1, i, Hi, NoContext)
       \/ \E o \in {o \in LlmOutcomes : o.text \in {"", "fence"}} : LlmReturn(1, o)
       \/ AfterPause(1)
       \/ AfterAction(1)
    /\ RouterWithin

SpecResync == Init /\ [][NextResync]_vars

\* C36: the history assembled when a turn on a chat starts is made of the
\* transcript stored for the chat at that moment and the new user
\* message: it holds every stored message, also after a sync replaced the
\* transcript, and no message that the sync discarded.
C36_HistoryFromStoredTranscript ==
    [][(last'.op = "message" /\ last'.chat # "" /\ handlers'[Stepper].pc = "llm") =>
          LET history == heap'[handlers'[Stepper].agent]
                            .conversation_histories[last'.chat]
              stored == chats'[last'.owner][last'.chat].messages
          IN {history[i].content : i \in 1..Len(history)}
                = {stored[i].text : i \in 1..Len(stored)}]_vars

(***************************************************************************)
(* SpecContext: one websocket whose turns carry a request context with no  *)
(* file, with a file and its code, or with another file and no code.       *)
(***************************************************************************)
TokenContext == [currentFile |-> Some(PathToken999), currentCode |-> None]

NextContext ==
    /\ \/ \E i \in {Absent, Given("c1")} : Connect(1, Given("0xA"), i)
       \/ ReceiveDisconnect(1)
       \/ \E i \in {Given("c1"), Given("zz")},
             k \in {NoContext, VaultContext, TokenContext} :
             ReceiveMessage(1, i, Hi, k)
       \/ \E o \in {o \in LlmOutcomes : o.text \in {"", "fence"}} : LlmReturn(1, o)
       \/ AfterPause(1)
       \/ AfterAction(1)
    /\ RouterWithin

SpecContext == Init /\ [][NextContext]_vars

\* C39: when the request context of a turn supplies a current file, the
\* agent's current code afterwards belongs to that file: it is the code
\* the request supplied, and it is never the code that was bound with a
\* different file before.
C39_CodeBelongsToFile ==
    [][(/\ last'.op = "message"
        /\ handlers'[Stepper].pc = "llm"
        /\ last'.arg.context.currentFile.some) =>
          LET before == heap[handlers'[Stepper].agent].context
              after == heap'[handlers'[Stepper].agent].context
              request == last'.arg.context
          IN /\ after.file = request.currentFile
             /\ request.currentCode.some => after.code = request.currentCode
             /\ (/\ before.file.some
                 /\ before.file # request.currentFile
                 /\ before.code.some
                 /\ ~request.currentCode.some) => after.code # before.code]_vars

\* C40: once a request context has bound a current file in an agent, no
\* later step unbinds it, whatever the chat and the context of the later
\* turns, and every fence the agent parses from then on yields an edit
\* action and never a create action.
C40_EditingModeMonotone ==
    [][/\ \A a \in DOMAIN heap \cap DOMAIN heap' :
             heap[a].context.file.some =>
                /\ heap'[a].context.file.some
                /\ heap'[a].context.file = heap[a].context.file
                      \/ (last'.op = "message"
                          /\ heap'[a].context.file = last'.arg.context.currentFile)
       /\ (/\ last'.op = "parse_actions"
           /\ heap[handlers[Stepper].agent].context.file.some) =>
             \A i \in 1..Len(last'.arg) :
                last'.arg[i].type \in {"edit_file", "message"}]_vars

\* a fence parsed in a turn that carried no file, after an earlier turn of
\* the agent bound one: it became an edit
C40_Witness ==
    /\ last.op = "parse_actions"
    /\ \E i \in 1..Len(last.arg) : last.arg[i].type = "edit_file"
    /\ 1 \in DOMAIN handlers
    /\ handlers[1].cur = Given("zz")
    /\ "c1" \in DOMAIN heap[handlers[1].agent].conversation_histories
    /\ heap[handlers[1].agent].context.file = Some(PathVault)

====
